---- MODULE Spec2Model ----
(***************************************************************************)
(* Tool-calling orchestration loop of the chat proxy, as implemented by    *)
(* the seven request handlers of the repository:                           *)
(*   ExpressChat, ExpressContinue, ExpressStream  (local express server)   *)
(*   NetlifyChat, NetlifyContinue                 (netlify functions)      *)
(*   EdgeStream                                   (netlify edge function)  *)
(*   LegacyChat                                   (netlify/functions/chat) *)
(* One conversation is modelled: a new turn, and the turns resumed from    *)
(* the PendingContext the client holds after a clarification pause.        *)
(***************************************************************************)
EXTENDS Naturals, Sequences, FiniteSets, TLC

\* ---- bounds of the model ------------------------------------------------
\* function_call items in one model response
MaxCalls == 2
\* function_call items the provider emits over the whole conversation
MaxFc == 2
\* model calls over the whole conversation
MaxModelCalls == 3
\* requests of the conversation
MaxRequests == 3

\* ---- handlers -----------------------------------------------------------
Targets == {"ExpressChat", "ExpressContinue", "ExpressStream",
            "NetlifyChat", "NetlifyContinue", "EdgeStream", "LegacyChat"}

NewTargets == {"ExpressChat", "ExpressStream", "NetlifyChat", "EdgeStream", "LegacyChat"}

ContinueTargets == {"ExpressContinue", "ExpressStream", "NetlifyContinue", "EdgeStream"}

StreamTargets == {"ExpressStream", "EdgeStream"}

\* handlers whose tool registry declares the clarify tool and whose loop has a clarify branch
ClarifyTargets == Targets \ {"LegacyChat"}

\* the client talks to the express server when run locally, to netlify otherwise
Family(t) == IF t \in {"ExpressChat", "ExpressContinue", "ExpressStream"} THEN "local" ELSE "netlify"

\* names the provider may put in a function_call item; "other" is any name no branch handles
ToolNames == {"web_search", "web_fetch", "clarify", "other"}

\* ---- transcript items ---------------------------------------------------
\* every item of a transcript or of a provider output, in one record shape
Item(type, call_id, name, payload) ==
  [type |-> type, call_id |-> call_id, name |-> name, payload |-> payload]

SystemPrompt == Item("message", 0, "developer", "system prompt")

\* JSON.stringify of a tool result or of the answer set
Serialize(v) ==
  CASE "error" \in DOMAIN v -> "{\"error\":\"" \o v.error \o "\"}"
    [] "results" \in DOMAIN v -> "{\"results\":\"" \o v.results \o "\"}"
    [] "content" \in DOMAIN v -> "{\"url\":\"" \o v.url \o "\",\"content\":\"" \o v.content \o "\"}"
    [] "answers" \in DOMAIN v -> "[" \o v.answers \o "]"

FunctionCallOutput(call_id, v) == Item("function_call_output", call_id, "", Serialize(v))

\* the input built for a new turn from the request's messages
BuildInput(t, messages) ==
  LET conv == [i \in 1..Len(messages) |-> Item("message", 0, messages[i].role, messages[i].content)]
  IN IF t = "LegacyChat" THEN conv ELSE <<SystemPrompt>> \o conv

\* ---- provider output ----------------------------------------------------
\* message texts of a model response: none, a remark next to tool calls, a final answer
Texts == {"", "note", "answer"}

\* the output list of one model response: a reasoning item (its summary text
\* differs from response to response), the function calls (ids first+1 ..),
\* and a message item when the response carries text
ProviderOutputWith(names, first, text, arguments) ==
  <<Item("reasoning", 0, "", "summary " \o ToString(first))>>
  \o [i \in 1..Len(names) |->
        Item("function_call", first + i, names[i], IF i = Len(names) THEN arguments ELSE "args")]
  \o (IF text # "" THEN <<Item("message", 0, "assistant", text)>> ELSE <<>>)

\* the output of a response whose function calls all carry well-formed arguments
ProviderOutput(names, first, text) == ProviderOutputWith(names, first, text, "args")

\* the arguments strings of a function_call item: "args" is a JSON object
\* text, "" the empty string, "{bad" a text JSON.parse rejects
ArgumentForms == {"args", "", "{bad"}

\* variant: a text that does not parse is read as no arguments
JSONparseLenient(text) == FALSE

\* whether JSON.parse(text) throws
JSONparseThrows(text) == text \notin {"args", "{}"}

\* fc.arguments || '{}'
ArgumentsText(fc) == IF fc.payload = "" THEN "{}" ELSE fc.payload

NameLists == UNION {[1..n -> ToolNames] : n \in 0..MaxCalls}

\* variant: only the function calls are echoed
IsRawCallsOnly(item) == item.type = "function_call"

IsRaw(item) == item.type = "reasoning" \/ item.type = "function_call"

IsFunctionCall(item) == item.type = "function_call"

ToolCall(fc) == [id |-> fc.call_id, name |-> fc.name]

IsMessage(item) == item.type = "message"

IsReasoning(item) == item.type = "reasoning"

extractResponse(output) ==
  LET functionCalls == SelectSeq(output, IsFunctionCall)
      messageOutput == SelectSeq(output, IsMessage)
      reasoningOutput == SelectSeq(output, IsReasoning)
  IN [responseText |-> IF Len(messageOutput) > 0 THEN messageOutput[1].payload ELSE "",
      reasoningSummary |-> IF Len(reasoningOutput) > 0 /\ reasoningOutput[1].payload # ""
                           THEN <<reasoningOutput[1].payload>> ELSE <<>>,
      rawOutputItems |-> IF Len(output) > 0 THEN SelectSeq(output, IsRaw) ELSE <<>>,
      toolCalls |-> [i \in 1..Len(functionCalls) |-> ToolCall(functionCalls[i])],
      threw |-> \E i \in 1..Len(functionCalls) : JSONparseThrows(ArgumentsText(functionCalls[i]))]

\* Array.prototype.find over the test results of the elements: the index of
\* the first element that passed, 0 when none did
FindIndex(passed) ==
  IF \E i \in 1..Len(passed) : passed[i]
  THEN CHOOSE i \in 1..Len(passed) : passed[i] /\ \A j \in 1..(i - 1) : ~passed[j]
  ELSE 0

IsClarifyCall(tc) == tc.name = "clarify"

\* variant: the first tool call is taken as the clarify call whenever any call is a clarify call
FindClarifyAny(toolCalls) == IF FindIndex([i \in 1..Len(toolCalls) |-> IsClarifyCall(toolCalls[i])]) > 0 THEN 1 ELSE 0

\* toolCalls.find(tc => tc.name === 'clarify'), as an index into toolCalls
FindClarify(toolCalls) == FindIndex([i \in 1..Len(toolCalls) |-> IsClarifyCall(toolCalls[i])])

\* ---- tool executors -----------------------------------------------------
\* what an executor meets: whether its credential is set, and how the
\* outbound request ends ("throw": fetch rejects; "body_throw": reading or
\* decoding the body rejects; "status": a non-success status)
ExecEnvs ==
  {[key |-> FALSE, outcome |-> "ok"]}
  \cup {[key |-> TRUE, outcome |-> o] : o \in {"ok", "status", "throw", "body_throw"}}

\* the try block of performWebSearch
SearchTry(env) ==
  CASE env.outcome = "ok" -> [threw |-> FALSE, value |-> [results |-> "hits"]]
    [] env.outcome = "status" -> [threw |-> FALSE, value |-> [error |-> "Search failed: status"]]
    [] OTHER -> [threw |-> TRUE, value |-> [error |-> "exception message"]]

\* variant: the request is made outside the try block
performWebSearchNoCatch(env) ==
  IF ~env.key
  THEN [raised |-> FALSE, requests |-> 0, value |-> [error |-> "Search API not configured"]]
  ELSE LET a == SearchTry(env)
       IN [raised |-> a.threw, requests |-> 1, value |-> a.value]

performWebSearch(env) ==
  IF ~env.key
  THEN [raised |-> FALSE, requests |-> 0, value |-> [error |-> "Search API not configured"]]
  ELSE LET a == SearchTry(env)
       IN [raised |-> FALSE, requests |-> 1, value |-> a.value]

\* the try block of performWebFetch
FetchTry(env) ==
  CASE env.outcome = "ok" -> [threw |-> FALSE, value |-> [url |-> "u", content |-> "page"]]
    [] env.outcome = "status" -> [threw |-> FALSE, value |-> [error |-> "Fetch failed: status"]]
    [] OTHER -> [threw |-> TRUE, value |-> [error |-> "exception message"]]

\* variant: the request is made outside the try block
performWebFetchNoCatch(env) ==
  IF ~env.key
  THEN [raised |-> FALSE, requests |-> 0, value |-> [error |-> "Web fetch API not configured"]]
  ELSE LET a == FetchTry(env)
       IN [raised |-> a.threw, requests |-> 1, value |-> a.value]

performWebFetch(env) ==
  IF ~env.key
  THEN [raised |-> FALSE, requests |-> 0, value |-> [error |-> "Web fetch API not configured"]]
  ELSE LET a == FetchTry(env)
       IN [raised |-> FALSE, requests |-> 1, value |-> a.value]

\* ---- model gateway ------------------------------------------------------
\* how a model call ends: "ok"; "http_error" (a non-success status); for a
\* streamed call also "no_final" (the body ends before the final response
\* event) and "unterminated" (the body ends within the line of the final event)
CallOutcomes(t) ==
  IF t \in StreamTargets THEN {"ok", "http_error", "no_final", "unterminated"}
  ELSE {"ok", "http_error"}

\* variant: the status of the response is not checked
callAzureAPINoStatusCheck(outcome, output) ==
  [threw |-> FALSE, output |-> IF outcome = "ok" THEN output ELSE <<>>, forwarded |-> <<>>,
   currentReasoningText |-> ""]

\* callAzureAPI: throws on a non-success status, else returns the parsed body
callAzureAPI(outcome, output) ==
  [threw |-> outcome # "ok", output |-> IF outcome = "ok" THEN output ELSE <<>>,
   forwarded |-> <<>>, currentReasoningText |-> ""]

\* ---- the upstream event stream ------------------------------------------
Event(type, name) == [type |-> type, name |-> name]

\* one line of the upstream body. form: "blank", "field" (a line that does not
\* start with 'data: '), "marker" ('data: [DONE]'), "garbage" (a data line whose
\* payload JSON.parse rejects), "json" (a data line carrying an event object)
Line(form, type, delta, present, output) ==
  [form |-> form, type |-> type, delta |-> delta, present |-> present, output |-> output]

ReasoningDeltaTypes == {"response.reasoning_summary_text.delta",
                        "response.reasoning_summary_part.delta",
                        "response.summary_text.delta"}

FinalTypes == {"response.done", "response.completed"}

\* the locals of processAzureStream, with the events onEvent forwarded
NoStream == [hasResponse |-> FALSE, fullResponse |-> <<>>, currentReasoningText |-> "",
             currentContentText |-> "", forwarded |-> <<>>]

\* switch (event.type) on a parsed event
\* variant: the newest delta is put in front of the deltas already forwarded
switchEventNewestFirst(acc, event) ==
  IF event.type \in ReasoningDeltaTypes
  THEN [acc EXCEPT !.currentReasoningText = @ \o event.delta,
                   !.forwarded = <<Event("reasoning_delta", event.delta)>> \o @]
  ELSE IF event.type = "response.output_text.delta"
  THEN [acc EXCEPT !.currentContentText = @ \o event.delta,
                   !.forwarded = <<Event("content_delta", event.delta)>> \o @]
  ELSE IF event.type \in FinalTypes
  THEN [acc EXCEPT !.hasResponse = event.present, !.fullResponse = event.output]
  ELSE acc

switchEvent(acc, event) ==
  IF event.type \in ReasoningDeltaTypes
  THEN [acc EXCEPT !.currentReasoningText = @ \o event.delta,
                   !.forwarded = Append(@, Event("reasoning_delta", event.delta))]
  ELSE IF event.type = "response.output_text.delta"
  THEN [acc EXCEPT !.currentContentText = @ \o event.delta,
                   !.forwarded = Append(@, Event("content_delta", event.delta))]
  ELSE IF event.type \in FinalTypes
  THEN [acc EXCEPT !.hasResponse = event.present, !.fullResponse = event.output]
  ELSE acc

\* variant: the exception of JSON.parse is not caught inside the for loop and
\* what was read of the stream is lost
processLineNoCatch(acc, line) ==
  IF line.form = "garbage" THEN NoStream
  ELSE IF line.form # "json" THEN acc
  ELSE switchEvent(acc, line)

\* the body of `for (const line of lines)`: blank lines, lines without the
\* 'data: ' prefix and the [DONE] marker are passed over, a payload that does
\* not parse is logged in the catch block, a parsed event goes to the switch
processLine(acc, line) ==
  IF line.form # "json" THEN acc ELSE switchEvent(acc, line)

\* the lines the read loop hands to the for loop: the last line of a body
\* that does not end with a newline stays in the buffer
Delivered(body) ==
  IF body.terminated \/ Len(body.lines) = 0 THEN body.lines
  ELSE SubSeq(body.lines, 1, Len(body.lines) - 1)

RECURSIVE ReadLines(_, _)
ReadLines(acc, lines) ==
  IF Len(lines) = 0 THEN acc ELSE ReadLines(processLine(acc, Head(lines)), Tail(lines))

\* the deltas the provider streams for a message text
Pieces(text) ==
  CASE text = "answer" -> <<"ans", "wer">>
    [] text = "note" -> <<"note">>
    [] OTHER -> <<>>

\* the body the provider streams for a response: the summary delta, the text
\* deltas, and the final event unless the stream breaks off before it
UpstreamBody(outcome, output) ==
  LET text == extractResponse(output).responseText
      summary == extractResponse(output).reasoningSummary
      thoughts == [i \in 1..Len(summary) |->
                     Line("json", "response.reasoning_summary_text.delta", summary[i], FALSE, <<>>)]
      deltas == [i \in 1..Len(Pieces(text)) |->
                   Line("json", "response.output_text.delta", Pieces(text)[i], FALSE, <<>>)]
  IN [lines |-> thoughts
                \o deltas
                \o (IF outcome = "ok"
                    THEN <<Line("json", "response.completed", "", TRUE, output),
                           Line("blank", "", "", FALSE, <<>>)>>
                    ELSE IF outcome = "unterminated"
                    THEN <<Line("json", "response.completed", "", TRUE, output)>>
                    ELSE <<>>),
      terminated |-> outcome # "unterminated"]

\* variant: the loop does not check fullResponse
processAzureStreamUnchecked(outcome, output) ==
  LET r == IF outcome = "http_error" THEN NoStream
           ELSE ReadLines(NoStream, Delivered(UpstreamBody(outcome, output)))
  IN [threw |-> outcome = "http_error",
      output |-> IF r.hasResponse THEN r.fullResponse ELSE <<>>,
      forwarded |-> r.forwarded, currentReasoningText |-> r.currentReasoningText]

\* processAzureStream followed by the loop's `if (!fullResponse) throw`
processAzureStream(outcome, output) ==
  LET r == IF outcome = "http_error" THEN NoStream
           ELSE ReadLines(NoStream, Delivered(UpstreamBody(outcome, output)))
  IN [threw |-> outcome = "http_error" \/ ~r.hasResponse,
      output |-> IF r.hasResponse THEN r.fullResponse ELSE <<>>,
      forwarded |-> r.forwarded, currentReasoningText |-> r.currentReasoningText]

Gateway(t, outcome, output) ==
  IF t \in StreamTargets THEN processAzureStream(outcome, output) ELSE callAzureAPI(outcome, output)

\* ---- request configuration ---------------------------------------------
\* the AZURE_* environment a request meets; AZURE_DEPLOYMENT_NAME is read by chat.js only
AzureEnvs(t) ==
  {[key |-> k, endpoint |-> e, deployment |-> d] :
     k \in BOOLEAN, e \in BOOLEAN, d \in (IF t = "LegacyChat" THEN BOOLEAN ELSE {TRUE})}

\* variant: only the key is checked
ConfigPresentKeyOnly(t, env) == env.key

\* the negation of `!AZURE_API_KEY || !AZURE_ENDPOINT` (chat.js: `|| !AZURE_DEPLOYMENT_NAME`)
ConfigPresent(t, env) ==
  env.key /\ env.endpoint /\ (t = "LegacyChat" => env.deployment)

\* the modelConfig objects the client sends (types.ts: {model, reasoning: {effort}})
ModelConfigs == {[model |-> "gpt-5.1", effort |-> "high"], [model |-> "gpt-5.2", effort |-> "medium"]}

MODEL_DEPLOYMENT_MAP(t, model) ==
  IF t \in {"ExpressChat", "ExpressContinue", "ExpressStream", "NetlifyContinue"}
  THEN (IF model = "gpt-5.1" THEN "gpt-5.1-PTU" ELSE model)
  ELSE IF t \in {"NetlifyChat", "EdgeStream"}
  THEN (IF model = "gpt-5.2" THEN "gpt-5.2-PTU" ELSE model)
  ELSE model

\* selectedModel, reasoningEffort and deploymentName of a new turn
NewConfig(t, mc) ==
  [model |-> mc.model,
   effort |-> IF t = "LegacyChat" THEN mc.effort ELSE "medium",
   deployment |-> MODEL_DEPLOYMENT_MAP(t, mc.model)]

\* model, reasoningEffort and deploymentName of a resumed turn
ContinueConfig(t, ctx) ==
  [model |-> ctx.model, effort |-> ctx.reasoningEffort,
   deployment |-> MODEL_DEPLOYMENT_MAP(t, ctx.model)]

NoConfig == [model |-> "", effort |-> "", deployment |-> ""]

\* variant: a modelConfig in the request body is used in continue mode too
RequestConfigFromBody(t, m, body, ctx) ==
  IF m = "continue" /\ body.modelConfig.model = "" THEN ContinueConfig(t, ctx)
  ELSE NewConfig(t, body.modelConfig)

\* selectedModel, reasoningEffort and deploymentName of a request: the
\* `if (isContinueMode)` branches of the stream handlers; the continuation
\* handlers read pendingContext and answers only
RequestConfig(t, m, body, ctx) ==
  IF m = "continue" THEN ContinueConfig(t, ctx) ELSE NewConfig(t, body.modelConfig)

\* the tools every model call of a handler declares
ALL_TOOLS(t) ==
  IF t = "LegacyChat" THEN <<"web_search", "web_fetch">>
  ELSE <<"web_search", "web_fetch", "clarify">>

\* the request body of a model call
RequestBody(t, c, in) ==
  [model |-> c.deployment, effort |-> c.effort, tools |-> ALL_TOOLS(t), input |-> in]

\* the conversation the client sends with a new turn
Messages == <<[role |-> "user", content |-> "question"]>>

\* ---- state --------------------------------------------------------------
VARIABLES
  target,          \* the handler serving the current request
  mode,            \* "new" or "continue"
  pc,              \* "idle", "call" (before a model call), "tools", "done"
  cfg,             \* model, effort and deployment of the current request
  input,           \* the transcript
  toolCalls,       \* the loop's toolCalls variable
  rawOutputItems,  \* the loop's rawOutputItems variable
  ti,              \* index of the next tool call of the for loop
  result,          \* what the request reported: "none", "complete", "pending_clarification", "error"
  events,          \* the events a streaming request has sent
  streamOpen,      \* whether the event stream of the request was opened
  pending,         \* the PendingContext the client holds (NoPending when none)
  reqCtx,          \* the PendingContext as it arrived with the current request
  answers,         \* the answer set of the current request
  submitted,       \* the transcripts the current request passed to the model, in order
  nExec,           \* executor invocations of the current request
  iterExec,        \* executor invocations since the latest model call
  iterAppended,    \* function_call_output items appended since the latest model call
  lastExec,        \* the latest executor invocation
  lastCall,        \* the latest model call
  lastOutput,      \* the output list of the latest model response
  signals,         \* pending_clarification responses / clarify events of the current request
  nextId,          \* call ids the provider has used
  totalCalls,      \* model calls of the conversation
  reqId,           \* requests of the conversation
  azure,           \* the AZURE_* environment of the current request
  reqBody,         \* messages and modelConfig of the current request
  pendingContext,  \* the pendingContext object of the current request, as it is now
  held,            \* the PendingContext object the loop created, as it is now in the caller's memory
  via,             \* how the current request got its pendingContext: "wire" or "memory"
  resumes,         \* what each resumed request first sent to the model
  history,         \* the model responses and tool results of the current request, in order
  allToolCalls,    \* the loop's allToolCalls (chat.js: the toolCalls it reports)
  reasoningSummary, \* the loop's reasoningSummary / allReasoningSummary
  calls,           \* the request bodies of the model calls of the current request, in order
  cycles,          \* resumptions behind the transcript of the current request
  pendingDeployment, \* the deployment the model calls of the paused request were sent to
  pendingCycles,   \* resumptions behind the PendingContext the client holds
  heldCycles       \* resumptions behind the PendingContext object in the caller's memory

loopVars == <<target, mode, pc, cfg, input, toolCalls, rawOutputItems, ti, result, events,
              streamOpen, pending, reqCtx, answers, submitted, nExec, iterExec, iterAppended,
              lastExec, lastCall, lastOutput, signals, nextId, totalCalls, reqId,
              azure, reqBody, pendingContext, held, via, resumes, history,
              allToolCalls, reasoningSummary, calls, cycles, pendingCycles, heldCycles,
              pendingDeployment>>

\* the variables of the stream reader taken alone
VARIABLES
  sBody,           \* the upstream body being read
  sPos,            \* lines of the body the for loop has passed
  sAcc             \* the locals of processAzureStream

\* the state of processAzureStream reading the upstream body chunk by chunk
VARIABLES
  cStream,         \* the characters of the upstream body
  cPos,            \* characters the read loop has received
  cBuffer,         \* the buffer variable
  cAcc             \* the locals of processAzureStream

chunkVars == <<cStream, cPos, cBuffer, cAcc>>

streamVars == <<sBody, sPos, sAcc, chunkVars>>

\* the state of the client (App.tsx)
VARIABLES
  conversations,          \* the stored conversations: records of id and messages
  currentConversationId,  \* 0 for null
  messages,               \* the messages shown: records of id, role and content
  isLoading,
  pendingClarify,         \* 0 for null, else the number of the held PendingContext
  inflight,               \* the request of the client the server is serving: "none", "open",
                          \* "closing" (after the clarify event), "failed" (after the error event)
  released,               \* the user submitted answers or abandoned the conversation since the latest clarify event
  clock,                  \* the latest Date.now() that gave an id
  clarifies,              \* clarify events received
  assistantMsgId,         \* assistantMsgId of the latest request, 0 before the first
  deltas,                 \* content_delta events of the latest request
  failure,                \* how the latest request failed: "none", "event" (an error event), "thrown"
  thoughts,               \* the reasoning_delta payloads the latest request has received, in order
  turnConversationId      \* the conversation the latest request was started in, 0 before the first

\* the state of one clarification form (ClarifyForm.tsx)
VARIABLES
  fQuestions,             \* the questions prop
  fAnswers,               \* the answers state, by question id
  fSubmitted              \* what onSubmit was called with, if it was

formVars == <<fQuestions, fAnswers, fSubmitted>>

clientVars == <<conversations, currentConversationId, messages, isLoading, pendingClarify,
                inflight, released, clock, clarifies, assistantMsgId, turnConversationId, deltas,
                failure, thoughts, formVars>>

vars == <<loopVars, streamVars, clientVars>>

NoPending == [input |-> <<>>, rawOutputItems |-> <<>>, clarifyCallId |-> 0,
              model |-> "", reasoningEffort |-> ""]

NoExec == [tool |-> "", env |-> [key |-> FALSE, outcome |-> ""], raised |-> FALSE,
           requests |-> 0, value |-> [error |-> ""]]

NoCall == [outcome |-> "", deployment |-> "", effort |-> ""]

NoAzure == [key |-> FALSE, endpoint |-> FALSE, deployment |-> FALSE]

NoBody == [messagesOk |-> FALSE, modelConfig |-> [model |-> "", effort |-> ""]]

NoBodyRead == [lines |-> <<>>, terminated |-> TRUE]

\* one entry of the history of a request: a model response (how the call
\* ended and its output list) or a tool result (whether the executor raised,
\* and the serialized value it returned)
Step(kind, outcome, output, call, raised, value) ==
  [kind |-> kind, outcome |-> outcome, output |-> output, call |-> call,
   raised |-> raised, value |-> value]

NoToolCall == [id |-> 0, name |-> ""]

AnswerSets == {[answers |-> "budget=2000"], [answers |-> ""]}

\* no request has been made
LoopInit ==
  /\ target = "" /\ mode = "" /\ pc = "idle" /\ cfg = NoConfig
  /\ input = <<>> /\ toolCalls = <<>> /\ rawOutputItems = <<>> /\ ti = 0
  /\ result = "none" /\ events = <<>> /\ streamOpen = FALSE
  /\ pending = NoPending /\ reqCtx = NoPending /\ answers = [answers |-> ""]
  /\ submitted = <<>> /\ nExec = 0 /\ iterExec = 0 /\ iterAppended = 0
  /\ lastExec = NoExec /\ lastCall = NoCall /\ lastOutput = <<>> /\ signals = 0
  /\ nextId = 0 /\ totalCalls = 0 /\ reqId = 0
  /\ azure = NoAzure /\ reqBody = NoBody /\ pendingContext = NoPending /\ held = NoPending
  /\ via = "" /\ resumes = <<>> /\ history = <<>>
  /\ allToolCalls = <<>> /\ reasoningSummary = <<>> /\ calls = <<>>
  /\ pendingDeployment = "" /\ cycles = 0 /\ pendingCycles = 0 /\ heldCycles = 0

\* no body is being read
ChunkIdle == cStream = <<>> /\ cPos = 0 /\ cBuffer = <<>> /\ cAcc = NoStream

ReaderInit == sBody = NoBodyRead /\ sPos = 0 /\ sAcc = NoStream /\ ChunkIdle

\* no form is mounted
FormIdle ==
  /\ fQuestions = <<>> /\ fAnswers = <<>>
  /\ fSubmitted = [done |-> FALSE, answers |-> <<>>]

\* the client as it is mounted with an empty localStorage
ClientInit ==
  /\ conversations = {} /\ currentConversationId = 0 /\ messages = <<>>
  /\ isLoading = FALSE /\ pendingClarify = 0 /\ inflight = "none"
  /\ released = FALSE /\ clock = 0 /\ clarifies = 0
  /\ assistantMsgId = 0 /\ deltas = 0 /\ failure = "none" /\ thoughts = <<>>
  /\ turnConversationId = 0
  /\ FormIdle

Init == LoopInit /\ ReaderInit /\ ClientInit

\* the state every request starts from
Fresh(t, m) ==
  /\ target' = t /\ mode' = m /\ reqId' = reqId + 1
  /\ toolCalls' = <<>> /\ rawOutputItems' = <<>> /\ ti' = 0
  /\ submitted' = <<>> /\ nExec' = 0 /\ iterExec' = 0 /\ iterAppended' = 0
  /\ lastExec' = NoExec /\ lastCall' = NoCall /\ lastOutput' = <<>> /\ signals' = 0
  /\ history' = <<>>
  /\ allToolCalls' = <<>> /\ reasoningSummary' = <<>> /\ calls' = <<>>
  /\ UNCHANGED <<nextId, totalCalls, resumes, streamVars, clientVars>>

\* variant: the catch block ends the request without sending the error event
ErroredSilent(t, evs) ==
  /\ result' = "error" /\ pc' = "done"
  /\ events' = evs

\* the handler's catch block / early error return: the request ends with an error
Errored(t, evs) ==
  /\ result' = "error" /\ pc' = "done"
  /\ events' = IF t \in StreamTargets THEN Append(evs, Event("error", "")) ELSE evs

\* ---- the PendingContext on the wire ------------------------------------
\* JSON.stringify of a transcript item: the properties that are defined, as
\* name/text pairs (call_id is absent from message and reasoning items)
JSONstringifyItem(it) ==
  <<<<"type", it.type>>>>
  \o (IF it.call_id # 0 THEN <<<<"call_id", ToString(it.call_id)>>>> ELSE <<>>)
  \o (IF it.name # "" THEN <<<<"name", it.name>>>> ELSE <<>>)
  \o <<<<"payload", it.payload>>>>

\* the text of property k in a stringified object, "" when the property is absent
Property(pairs, k) ==
  LET i == FindIndex([j \in 1..Len(pairs) |-> pairs[j][1] = k])
  IN IF i = 0 THEN "" ELSE pairs[i][2]

\* the number a numeral stands for, 0 for ""
ParseNumber(text) ==
  IF text = "" THEN 0 ELSE CHOOSE n \in 1..(MaxFc + 1) : ToString(n) = text

JSONparseItem(pairs) ==
  Item(Property(pairs, "type"), ParseNumber(Property(pairs, "call_id")),
       Property(pairs, "name"), Property(pairs, "payload"))

\* res.json / sendEvent of a pendingContext
JSONstringify(ctx) ==
  [input |-> [i \in 1..Len(ctx.input) |-> JSONstringifyItem(ctx.input[i])],
   rawOutputItems |-> [i \in 1..Len(ctx.rawOutputItems) |-> JSONstringifyItem(ctx.rawOutputItems[i])],
   rest |-> (IF ctx.clarifyCallId # 0 THEN <<<<"clarifyCallId", ToString(ctx.clarifyCallId)>>>> ELSE <<>>)
            \o <<<<"model", ctx.model>>, <<"reasoningEffort", ctx.reasoningEffort>>>>]

\* the pendingContext a handler reads from a request body
JSONparse(wire) ==
  [input |-> [i \in 1..Len(wire.input) |-> JSONparseItem(wire.input[i])],
   rawOutputItems |-> [i \in 1..Len(wire.rawOutputItems) |-> JSONparseItem(wire.rawOutputItems[i])],
   clarifyCallId |-> ParseNumber(Property(wire.rest, "clarifyCallId")),
   model |-> Property(wire.rest, "model"),
   reasoningEffort |-> Property(wire.rest, "reasoningEffort")]

\* ---- starting a request -------------------------------------------------
\* the request is refused for missing AZURE_* configuration: the edge function
\* answers with a plain HTTP 500 before any event stream exists, the express
\* stream endpoint sends an error event, the others answer HTTP 500
ConfigMissing(t) ==
  /\ cfg' = NoConfig /\ input' = <<>>
  /\ IF t = "EdgeStream"
     THEN streamOpen' = FALSE /\ result' = "error" /\ pc' = "done" /\ events' = <<>>
     ELSE streamOpen' = (t \in StreamTargets) /\ Errored(t, <<>>)

\* the request passed the configuration check and built its input
Started(t, c, in) ==
  /\ cfg' = c /\ input' = in /\ streamOpen' = (t \in StreamTargets)
  /\ result' = "none" /\ pc' = "call"
  /\ events' = IF t \in StreamTargets THEN <<Event("start", "")>> ELSE <<>>

\* a new turn: {messages, modelConfig}
StartNew(t, env, msgsOk, mc) ==
  /\ pc = "idle"
  /\ Fresh(t, "new")
  /\ azure' = env /\ reqBody' = [messagesOk |-> msgsOk, modelConfig |-> mc]
  /\ reqCtx' = NoPending /\ answers' = [answers |-> ""] /\ via' = ""
  /\ pendingContext' = NoPending
  /\ cycles' = 0
  /\ UNCHANGED <<pending, held, pendingCycles, heldCycles, pendingDeployment>>
  /\ LET body == [messagesOk |-> msgsOk, modelConfig |-> mc]
     IN IF ~ConfigPresent(t, env) THEN ConfigMissing(t)
        ELSE IF ~msgsOk
        THEN /\ cfg' = RequestConfig(t, "new", body, NoPending) /\ input' = <<>>
             /\ streamOpen' = (t \in StreamTargets)
             /\ Errored(t, <<>>)
        ELSE Started(t, RequestConfig(t, "new", body, NoPending), BuildInput(t, Messages))

IsClarifyFunctionCall(item) == item.type = "function_call" /\ item.name = "clarify"

\* variant: the last clarify function_call of the raw items is taken
actualCallIdLast(ctx) ==
  LET S == {i \in 1..Len(ctx.rawOutputItems) : IsClarifyFunctionCall(ctx.rawOutputItems[i])}
  IN IF S # {}
     THEN ctx.rawOutputItems[CHOOSE i \in S : \A j \in S : j <= i].call_id
     ELSE ctx.clarifyCallId

\* the edge function's actualCallId
actualCallId(ctx) ==
  LET i == FindIndex([j \in 1..Len(ctx.rawOutputItems) |-> IsClarifyFunctionCall(ctx.rawOutputItems[j])])
  IN IF i > 0 /\ ctx.rawOutputItems[i].call_id # 0
     THEN ctx.rawOutputItems[i].call_id
     ELSE ctx.clarifyCallId

\* call_id of the function_call_output a resumed turn appends
ResumeCallId(t, ctx) == IF t = "EdgeStream" THEN actualCallId(ctx) ELSE ctx.clarifyCallId

\* variant: the server keeps the paused turn for one resumption only
ResumeInputOnce(t, ctx, ans) ==
  IF Len(resumes) = 0
  THEN ctx.input \o ctx.rawOutputItems \o <<FunctionCallOutput(ResumeCallId(t, ctx), ans)>>
  ELSE <<FunctionCallOutput(ResumeCallId(t, ctx), ans)>>

\* the transcript a resumed turn reconstructs
ResumeInput(t, ctx, ans) ==
  ctx.input \o ctx.rawOutputItems \o <<FunctionCallOutput(ResumeCallId(t, ctx), ans)>>

\* handlers whose `input` is the array pendingContext.input itself
\* (`const { input, ... } = pendingContext` followed by input.push); the
\* stream handlers build a new array with the spread syntax
SharesInput(t) == t \in {"ExpressContinue", "NetlifyContinue"}

\* the pendingContext object of the request when the loop's input is `in`
Shared(t, ctx, in) == IF SharesInput(t) THEN [ctx EXCEPT !.input = in] ELSE ctx

\* what a request may carry next to pendingContext and answers: the stream
\* handlers read messages and modelConfig from every body, the continuation
\* handlers read pendingContext and answers only
ExtraBodies(t) ==
  IF t \in StreamTargets
  THEN {NoBody, [messagesOk |-> TRUE, modelConfig |-> [model |-> "gpt-5.2", effort |-> "low"]]}
  ELSE {NoBody}

\* a resumed turn: {pendingContext, answers}, with or without messages and
\* modelConfig. The caller sends the context it received ("wire": the handler
\* reads it from the request body) or hands the handler the object the loop
\* created ("memory")
StartContinue(t, env, ans, v, extra) ==
  /\ pc = "done" /\ pending # NoPending
  /\ reqId < MaxRequests
  /\ Family(t) = Family(target)
  /\ Fresh(t, "continue")
  /\ LET ctx == IF v = "memory" THEN held ELSE pending
         before == IF v = "memory" THEN heldCycles ELSE pendingCycles
     IN /\ azure' = env /\ reqBody' = extra
        /\ reqCtx' = ctx /\ answers' = ans /\ via' = v
        /\ UNCHANGED <<pending, pendingCycles, pendingDeployment>>
        /\ IF ~ConfigPresent(t, env)
           THEN /\ ConfigMissing(t)
                /\ pendingContext' = ctx
                /\ cycles' = 0
                /\ UNCHANGED <<held, heldCycles>>
           ELSE /\ Started(t, RequestConfig(t, "continue", extra, ctx), ResumeInput(t, ctx, ans))
                /\ pendingContext' = Shared(t, ctx, ResumeInput(t, ctx, ans))
                /\ held' = IF v = "memory" THEN Shared(t, ctx, ResumeInput(t, ctx, ans)) ELSE held
                /\ cycles' = before + 1
                /\ heldCycles' = IF v = "memory" /\ SharesInput(t) THEN before + 1 ELSE heldCycles

\* variant: the edge function leaves continueLoop set
ContinueLoopLeftSet(t) == t = "EdgeStream"

\* ---- the loop -----------------------------------------------------------
\* whether the loop goes on after it signalled a clarification
\* (`return` in the express and netlify handlers, continueLoop = false in the edge function)
ContinueLoopAfterClarify(t) == FALSE

\* variant: a resumed turn that pauses again hands back the transcript it was given
PendingContextAsSaved(in, raw, id, c) ==
  [input |-> IF mode = "continue" THEN reqCtx.input ELSE in, rawOutputItems |-> raw,
   clarifyCallId |-> id, model |-> c.model, reasoningEffort |-> c.effort]

PendingContext(in, raw, id, c) ==
  [input |-> in, rawOutputItems |-> raw, clarifyCallId |-> id,
   model |-> c.model, reasoningEffort |-> c.effort]

\* variant: the items take the place of the array
replaceAll(arr, items) == items

\* for (const item of rawOutputItems) input.push(item)
pushAll(arr, items) == arr \o items

\* variant: a new item is put in front of the array
unshift(arr, item) == <<item>> \o arr

\* Array.prototype.push
push(arr, item) == Append(arr, item)

\* the request's pendingContext object and the caller's object follow the
\* loop's input where they are the same array
Follow(in) ==
  /\ pendingContext' = IF mode = "continue" THEN Shared(target, pendingContext, in) ELSE pendingContext
  /\ held' = IF mode = "continue" /\ via = "memory" THEN Shared(target, pendingContext, in) ELSE held

\* the response had no tool call: the turn is complete
Complete(t, evs) ==
  /\ result' = "complete" /\ pc' = "done"
  /\ events' = IF t \in StreamTargets THEN Append(evs, Event("done", "")) ELSE evs
  /\ Follow(input)
  /\ UNCHANGED <<input, ti, pending, signals, pendingCycles, heldCycles, pendingDeployment>>

\* the response has a clarify call: signal it and stop. The context goes to
\* the caller in the response body or in the clarify event
Pause(t, x, k, evs) ==
  /\ result' = "pending_clarification"
  /\ held' = PendingContext(input, x.rawOutputItems, x.toolCalls[k].id, cfg)
  /\ pending' = JSONparse(JSONstringify(PendingContext(input, x.rawOutputItems, x.toolCalls[k].id, cfg)))
  /\ pendingContext' = pendingContext
  /\ pendingCycles' = cycles /\ heldCycles' = cycles
  /\ pendingDeployment' = cfg.deployment
  /\ signals' = signals + 1
  /\ events' = IF t \in StreamTargets THEN Append(evs, Event("clarify", "")) ELSE evs
  /\ pc' = IF ContinueLoopAfterClarify(t) THEN "call" ELSE "done"
  /\ UNCHANGED <<input, ti>>

\* the response has tool calls to execute: echo the raw items and enter the for loop
RunTools(x, evs) ==
  /\ input' = pushAll(input, x.rawOutputItems)
  /\ pc' = "tools" /\ ti' = 1
  /\ events' = evs
  /\ Follow(pushAll(input, x.rawOutputItems))
  /\ UNCHANGED <<result, pending, signals, pendingCycles, heldCycles, pendingDeployment>>

\* what a resumed request first sends to the model
Resume(in) ==
  [req |-> reqId, target |-> target, pendingContext |-> reqCtx, answers |-> answers,
   input |-> in, deployment |-> cfg.deployment, effort |-> cfg.effort]

\* one model call with what follows it up to the next awaited call
ModelCallWith(outcome, names, text, arguments) ==
  /\ pc = "call"
  /\ Len(names) = 0 => arguments = "args"
  /\ totalCalls < MaxModelCalls
  /\ outcome \in CallOutcomes(target)
  /\ nextId + Len(names) <= MaxFc
  /\ outcome # "ok" => names = <<>>
  /\ IF Len(names) = 0 THEN text = "answer" ELSE text \in {"", "note"}
  /\ LET output == ProviderOutputWith(names, nextId, text, arguments)
         g == Gateway(target, outcome, output)
         x == extractResponse(g.output)
         k == FindClarify(x.toolCalls)
         evs == events \o g.forwarded
     IN /\ submitted' = Append(submitted, input)
        /\ totalCalls' = totalCalls + 1
        /\ lastCall' = [outcome |-> outcome, deployment |-> cfg.deployment, effort |-> cfg.effort]
        /\ iterExec' = 0 /\ iterAppended' = 0
        /\ history' = Append(history, Step("model", outcome, output, NoToolCall, FALSE, ""))
        /\ calls' = Append(calls, RequestBody(target, cfg, input))
        /\ resumes' = IF mode = "continue" /\ Len(submitted) = 0
                      THEN Append(resumes, Resume(input)) ELSE resumes
        /\ IF g.threw \/ x.threw
           THEN /\ Errored(target, evs)
                /\ Follow(input)
                /\ UNCHANGED <<input, toolCalls, rawOutputItems, ti, pending, lastOutput,
                               nextId, signals, allToolCalls, reasoningSummary,
                               pendingCycles, heldCycles, pendingDeployment>>
           ELSE /\ nextId' = nextId + Len(names)
                /\ lastOutput' = output
                /\ allToolCalls' =
                     IF target \in StreamTargets \/ (target = "LegacyChat" /\ Len(submitted) > 0)
                     THEN allToolCalls ELSE allToolCalls \o x.toolCalls
                /\ reasoningSummary' =
                     IF target \in StreamTargets
                     THEN (IF g.currentReasoningText # ""
                           THEN Append(reasoningSummary, g.currentReasoningText)
                           ELSE reasoningSummary)
                     ELSE reasoningSummary \o x.reasoningSummary
                /\ IF target = "LegacyChat"
                   THEN IF Len(submitted) = 0
                        THEN /\ toolCalls' = x.toolCalls /\ rawOutputItems' = x.rawOutputItems
                             /\ IF Len(x.toolCalls) > 0 THEN RunTools(x, evs) ELSE Complete(target, evs)
                        ELSE /\ UNCHANGED <<toolCalls, rawOutputItems>>
                             /\ Complete(target, evs)
                   ELSE /\ toolCalls' = x.toolCalls /\ rawOutputItems' = x.rawOutputItems
                        /\ IF Len(x.toolCalls) = 0 THEN Complete(target, evs)
                           ELSE IF k > 0 THEN Pause(target, x, k, evs)
                           ELSE RunTools(x, evs)
  /\ UNCHANGED <<target, mode, cfg, streamOpen, reqCtx, answers, nExec, lastExec, reqId,
                 azure, reqBody, via, cycles, streamVars, clientVars>>

\* variant: no event reports the end of a tool
sendToolResultSkipped(evs, name) == evs

\* sendEvent({ type: 'tool_result', name, resultCount })
sendToolResult(evs, name) == Append(evs, Event("tool_result", name))

\* one model call whose function calls carry well-formed arguments
ModelCall(outcome, names, text) == ModelCallWith(outcome, names, text, "args")

\* one pass of `for (const toolCall of toolCalls)`
ExecTool(env) ==
  /\ pc = "tools"
  /\ ti \in 1..Len(toolCalls)
  /\ LET tc == toolCalls[ti]
         r == IF tc.name = "web_search" THEN performWebSearch(env) ELSE performWebFetch(env)
         called == IF target \in StreamTargets THEN Append(events, Event("tool_call", tc.name)) ELSE events
     IN /\ allToolCalls' = IF target \in StreamTargets THEN Append(allToolCalls, tc) ELSE allToolCalls
        /\ IF tc.name \in {"web_search", "web_fetch"}
           THEN /\ lastExec' = [tool |-> tc.name, env |-> env, raised |-> r.raised,
                                requests |-> r.requests, value |-> r.value]
                /\ nExec' = nExec + 1 /\ iterExec' = iterExec + 1
                /\ history' = Append(history, Step("tool", "", <<>>, tc, r.raised, Serialize(r.value)))
                /\ IF r.raised
                   THEN /\ Errored(target, called)
                        /\ Follow(input)
                        /\ UNCHANGED <<input, ti, iterAppended>>
                   ELSE /\ input' = push(input, FunctionCallOutput(tc.id, r.value))
                        /\ Follow(push(input, FunctionCallOutput(tc.id, r.value)))
                        /\ iterAppended' = iterAppended + 1
                        /\ events' = IF target \in StreamTargets
                                     THEN sendToolResult(called, tc.name) ELSE events
                        /\ ti' = ti + 1
                        /\ pc' = IF ti + 1 > Len(toolCalls) THEN "call" ELSE "tools"
                        /\ UNCHANGED result
           ELSE /\ env = [key |-> TRUE, outcome |-> "ok"]
                /\ ti' = ti + 1
                /\ pc' = IF ti + 1 > Len(toolCalls) THEN "call" ELSE "tools"
                /\ UNCHANGED <<input, result, events, lastExec, nExec, iterExec, iterAppended,
                               history, pendingContext, held>>
  /\ UNCHANGED <<target, mode, cfg, toolCalls, rawOutputItems, streamOpen, pending, reqCtx,
                 answers, submitted, lastCall, lastOutput, signals, nextId, totalCalls, reqId,
                 azure, reqBody, via, resumes, reasoningSummary, calls, cycles,
                 pendingCycles, heldCycles, pendingDeployment, streamVars, clientVars>>

Next ==
  \/ \E t \in NewTargets, msgsOk \in BOOLEAN, mc \in ModelConfigs :
       \E env \in AzureEnvs(t) : StartNew(t, env, msgsOk, mc)
  \/ \E t \in ContinueTargets, ans \in AnswerSets, v \in {"wire", "memory"} :
       \E env \in AzureEnvs(t), extra \in ExtraBodies(t) : StartContinue(t, env, ans, v, extra)
  \/ \E outcome \in {"ok", "http_error", "no_final", "unterminated"}, names \in NameLists, text \in Texts :
       ModelCall(outcome, names, text)
  \/ \E env \in ExecEnvs : ExecTool(env)

Spec == Init /\ [][Next]_vars

\* the loop with responses whose function calls may carry any arguments string
ArgumentsNext ==
  \/ \E t \in NewTargets, msgsOk \in BOOLEAN, mc \in ModelConfigs :
       \E env \in AzureEnvs(t) : StartNew(t, env, msgsOk, mc)
  \/ \E t \in ContinueTargets, ans \in AnswerSets, v \in {"wire", "memory"} :
       \E env \in AzureEnvs(t), extra \in ExtraBodies(t) : StartContinue(t, env, ans, v, extra)
  \/ \E outcome \in {"ok", "http_error", "no_final", "unterminated"}, names \in NameLists,
        text \in Texts, arguments \in ArgumentForms :
       ModelCallWith(outcome, names, text, arguments)
  \/ \E env \in ExecEnvs : ExecTool(env)

ArgumentsSpec == Init /\ [][ArgumentsNext]_vars

\* ---- the non-streaming handlers as functions of a request's history ------
\* the non-streaming handlers that serve the requests a streaming handler serves
Peers(t, m) ==
  IF t = "ExpressStream" THEN (IF m = "new" THEN {"ExpressChat"} ELSE {"ExpressContinue"})
  ELSE IF t = "EdgeStream" THEN (IF m = "new" THEN {"NetlifyChat", "LegacyChat"} ELSE {"NetlifyContinue"})
  ELSE {}

\* the locals of a non-streaming handler
Locals(p, c, in, res) ==
  [pc |-> p, cfg |-> c, input |-> in, toolCalls |-> <<>>, ti |-> 0, result |-> res,
   responseText |-> "", submitted |-> <<>>, execs |-> <<>>, pendingContext |-> NoPending,
   diverged |-> FALSE]

\* handler t up to its first model call, for the request of the current state
PeerStart(t) ==
  IF ~ConfigPresent(t, azure)
  THEN Locals("done", NoConfig, <<>>, "error")
  ELSE IF mode = "continue"
  THEN Locals("call", ContinueConfig(t, reqCtx), ResumeInput(t, reqCtx, answers), "none")
  ELSE IF ~reqBody.messagesOk
  THEN Locals("done", NewConfig(t, reqBody.modelConfig), <<>>, "error")
  ELSE Locals("call", NewConfig(t, reqBody.modelConfig), BuildInput(t, Messages), "none")

\* the for loop passes over the tool calls no branch executes
RECURSIVE PassOver(_)
PassOver(l) ==
  IF l.pc # "tools" THEN l
  ELSE IF l.ti > Len(l.toolCalls) THEN [l EXCEPT !.pc = "call"]
  ELSE IF l.toolCalls[l.ti].name \in {"web_search", "web_fetch"} THEN l
  ELSE PassOver([l EXCEPT !.ti = @ + 1])

\* handler t after its model call was answered by h
PeerModel(t, l, h) ==
  LET g == callAzureAPI(h.outcome, h.output)
      x == extractResponse(g.output)
      k == FindClarify(x.toolCalls)
      sent == [l EXCEPT !.submitted = Append(@, l.input)]
      got == [sent EXCEPT !.toolCalls = x.toolCalls, !.responseText = x.responseText]
      run == PassOver([got EXCEPT !.input = @ \o x.rawOutputItems, !.pc = "tools", !.ti = 1])
      complete == [got EXCEPT !.pc = "done", !.result = "complete"]
  IN IF g.threw THEN [sent EXCEPT !.pc = "done", !.result = "error"]
     ELSE IF t = "LegacyChat"
     THEN (IF Len(l.submitted) = 0
           THEN (IF Len(x.toolCalls) > 0 THEN run ELSE complete)
           ELSE [sent EXCEPT !.responseText = x.responseText, !.pc = "done", !.result = "complete"])
     ELSE IF Len(x.toolCalls) = 0 THEN complete
     ELSE IF k > 0
     THEN [got EXCEPT !.pc = "done", !.result = "pending_clarification",
                      !.pendingContext = PendingContext(l.input, x.rawOutputItems, x.toolCalls[k].id, l.cfg)]
     ELSE run

\* handler t after the executor of its current tool call ended as h tells
PeerTool(t, l, h) ==
  LET tc == l.toolCalls[l.ti]
      ran == [l EXCEPT !.execs = Append(@, tc)]
  IN IF h.raised THEN [ran EXCEPT !.pc = "done", !.result = "error"]
     ELSE PassOver([ran EXCEPT !.input = push(@, Item("function_call_output", tc.id, "", h.value)),
                               !.ti = @ + 1])

PeerStep(t, l, h) ==
  IF l.diverged THEN l
  ELSE IF l.pc = "call" /\ h.kind = "model" THEN PeerModel(t, l, h)
  ELSE IF l.pc = "tools" /\ h.kind = "tool" THEN PeerTool(t, l, h)
  ELSE [l EXCEPT !.diverged = TRUE]

RECURSIVE Replay(_, _, _)
Replay(t, l, hist) ==
  IF Len(hist) = 0 THEN l ELSE Replay(t, PeerStep(t, l, Head(hist)), Tail(hist))

\* ---- the stream reader taken alone ---------------------------------------
\* lines of a body
MaxLines == 3

\* the lines an upstream body may hold
LineForms ==
  {Line("blank", "", "", FALSE, <<>>),
   Line("field", "", "", FALSE, <<>>),
   Line("marker", "", "", FALSE, <<>>),
   Line("garbage", "", "", FALSE, <<>>),
   Line("json", "response.summary_text.delta", "s", FALSE, <<>>),
   Line("json", "response.output_text.delta", "c", FALSE, <<>>),
   Line("json", "response.created", "", FALSE, <<>>),
   Line("json", "response.completed", "", TRUE, ProviderOutput(<<>>, 0, "answer")),
   Line("json", "response.done", "", FALSE, <<>>)}

Bodies ==
  {[lines |-> ls, terminated |-> tm] :
     ls \in UNION {[1..n -> LineForms] : n \in 0..MaxLines}, tm \in BOOLEAN}

StreamInit ==
  /\ LoopInit /\ ClientInit
  /\ sBody \in Bodies /\ sPos = 0 /\ sAcc = NoStream /\ ChunkIdle

\* the for loop handles the next line the read loop delivered
ReadLine ==
  /\ sPos < Len(Delivered(sBody))
  /\ sAcc' = processLine(sAcc, Delivered(sBody)[sPos + 1])
  /\ sPos' = sPos + 1
  /\ UNCHANGED <<sBody, chunkVars, loopVars, clientVars>>

\* the body ended: processAzureStream returns, what is left in the buffer is dropped
EndOfBody ==
  /\ sPos = Len(Delivered(sBody)) /\ sPos <= Len(sBody.lines)
  /\ sPos' = Len(sBody.lines) + 1
  /\ UNCHANGED <<sBody, sAcc, chunkVars, loopVars, clientVars>>

StreamNext == ReadLine \/ EndOfBody

StreamSpec == StreamInit /\ [][StreamNext]_vars

\* ---- the stream reader, chunk by chunk --------------------------------------
\* characters of an upstream body
MaxBytes == 6

\* The upstream text over a small alphabet. "\n" is the newline. "r", "c" and
\* "f" each stand for the whole text of a data line: one carrying a reasoning
\* delta, one carrying a content delta, one carrying the final event. A line
\* made of several of them is a data line whose payload does not parse.
Alphabet == {"r", "c", "f", "\n"}

Streams == UNION {[1..n -> Alphabet] : n \in 0..MaxBytes}

\* the line the for loop sees for the text w
LineOf(w) ==
  IF Len(w) = 0 THEN Line("blank", "", "", FALSE, <<>>)
  ELSE IF w = <<"r">> THEN Line("json", "response.reasoning_summary_text.delta", "s", FALSE, <<>>)
  ELSE IF w = <<"c">> THEN Line("json", "response.output_text.delta", "c", FALSE, <<>>)
  ELSE IF w = <<"f">> THEN Line("json", "response.completed", "", TRUE, ProviderOutput(<<>>, 0, "answer"))
  ELSE Line("garbage", "", "", FALSE, <<>>)

\* String.prototype.split('\n'): the texts between the newlines of w, the
\* text after the last newline included
RECURSIVE split(_)
split(w) ==
  IF \A i \in 1..Len(w) : w[i] # "\n" THEN <<w>>
  ELSE LET k == CHOOSE i \in 1..Len(w) : w[i] = "\n" /\ \A j \in 1..(i - 1) : w[j] # "\n"
       IN <<SubSeq(w, 1, k - 1)>> \o split(SubSeq(w, k + 1, Len(w)))

\* variant: each chunk is split on its own and its last text is handled as a line
readChunkNoCarry(buffer, chunk) ==
  [lines |-> split(chunk), buffer |-> <<>>]

\* buffer += decoder.decode(chunk); lines = buffer.split('\n'); buffer = lines.pop() || ''
readChunk(buffer, chunk) ==
  LET lines == split(buffer \o chunk)
  IN [lines |-> SubSeq(lines, 1, Len(lines) - 1), buffer |-> lines[Len(lines)]]

ChunkInit ==
  /\ LoopInit /\ ClientInit
  /\ sBody = NoBodyRead /\ sPos = 0 /\ sAcc = NoStream
  /\ cStream \in Streams /\ cPos = 0 /\ cBuffer = <<>> /\ cAcc = NoStream

\* the read loop receives the next n characters as one chunk and the for loop
\* handles the lines it completes
ReadChunk(n) ==
  /\ cPos + n <= Len(cStream)
  /\ LET r == readChunk(cBuffer, SubSeq(cStream, cPos + 1, cPos + n))
     IN /\ cBuffer' = r.buffer
        /\ cAcc' = ReadLines(cAcc, [i \in 1..Len(r.lines) |-> LineOf(r.lines[i])])
  /\ cPos' = cPos + n
  /\ UNCHANGED <<cStream, sBody, sPos, sAcc, loopVars, clientVars>>

\* the body ended: processAzureStream returns its locals, the buffer is not looked at
EndOfChunks ==
  /\ cPos = Len(cStream)
  /\ cPos' = Len(cStream) + 1
  /\ UNCHANGED <<cStream, cBuffer, cAcc, sBody, sPos, sAcc, loopVars, clientVars>>

ChunkNext == (\E n \in 1..MaxBytes : ReadChunk(n)) \/ EndOfChunks

ChunkSpec == ChunkInit /\ [][ChunkNext]_vars

\* ---- the client -----------------------------------------------------------
\* conversations the client keeps at a time
MaxConversations == 2
\* messages of a conversation
MaxMessages == 4
\* clarify events the client receives
MaxClarifies == 2
\* the latest value of Date.now()
MaxClock == 6
\* content_delta events of one request
MaxDeltas == 1

\* reasoning deltas of one request
MaxThoughts == 2
\* reasoning segments of one message
MaxSegments == 2
\* turns whose reasoning events are followed
MaxReasoningTurns == 1

\* a message as the handlers create it: reasoning: []
Message(id, role, content) == [id |-> id, role |-> role, content |-> content, reasoning |-> <<>>]

Conversation(id, msgs) == [id |-> id, messages |-> msgs]

\* conversations with the messages of the current one stored
\* (the effect on [messages, currentConversationId])
Stored(convs, id, msgs) ==
  IF id # 0 /\ Len(msgs) > 0
  THEN {IF c.id = id THEN Conversation(id, msgs) ELSE c : c \in convs}
  ELSE convs

\* prev.map(msg => msg.id === id ? { ...msg, content } : msg)
SetContent(msgs, id, content) ==
  [i \in 1..Len(msgs) |-> IF msgs[i].id = id THEN [msgs[i] EXCEPT !.content = content] ELSE msgs[i]]

\* prev.map(msg => msg.id === id ? { ...msg, content: (msg.content || '') + delta } : msg)
AddContent(msgs, id, delta) ==
  [i \in 1..Len(msgs) |-> IF msgs[i].id = id THEN [msgs[i] EXCEPT !.content = @ \o delta] ELSE msgs[i]]

handleNewConversation ==
  /\ currentConversationId' = 0 /\ messages' = <<>> /\ pendingClarify' = 0
  /\ released' = TRUE
  /\ UNCHANGED <<conversations, isLoading, inflight, clock, clarifies, assistantMsgId, turnConversationId, deltas, failure, thoughts>>
  /\ UNCHANGED <<loopVars, streamVars, formVars>>

handleSelectConversation(id) ==
  /\ \E conv \in conversations :
       /\ conv.id = id
       /\ currentConversationId' = id /\ messages' = conv.messages /\ pendingClarify' = 0
  /\ released' = TRUE
  /\ UNCHANGED <<conversations, isLoading, inflight, clock, clarifies, assistantMsgId, turnConversationId, deltas, failure, thoughts>>
  /\ UNCHANGED <<loopVars, streamVars, formVars>>

handleDeleteConversation(id) ==
  /\ \E conv \in conversations : conv.id = id
  /\ conversations' = {c \in conversations : c.id # id}
  /\ IF currentConversationId = id
     THEN currentConversationId' = 0 /\ messages' = <<>> /\ released' = TRUE
     ELSE UNCHANGED <<currentConversationId, messages, released>>
  /\ UNCHANGED <<isLoading, pendingClarify, inflight, clock, clarifies, assistantMsgId, turnConversationId, deltas, failure, thoughts>>
  /\ UNCHANGED <<loopVars, streamVars, formVars>>

\* variant: the chat input submits whatever disabled is
ChatInputSubmitsAlways(disabled) == TRUE

\* ChatInput handleSubmit: onSendMessage is called only if !disabled
ChatInputSubmits(disabled) == ~disabled

\* the input is disabled while a request is running; the user message gets
\* the id Date.now(), the empty assistant message the id Date.now() + 1
handleSendMessage ==
  /\ ChatInputSubmits(isLoading)
  /\ Len(messages) + 2 <= MaxMessages
  /\ clock + 2 <= MaxClock
  /\ currentConversationId = 0 => Cardinality(conversations) < MaxConversations
  /\ LET shown == messages \o <<Message(clock + 1, "user", "question"),
                                Message(clock + 2, "assistant", "")>>
     IN /\ IF currentConversationId = 0
           THEN /\ currentConversationId' = clock + 1
                /\ conversations' = conversations \cup {Conversation(clock + 1, shown)}
           ELSE /\ conversations' = Stored(conversations, currentConversationId, shown)
                /\ UNCHANGED currentConversationId
        /\ messages' = shown
  /\ turnConversationId' = (IF currentConversationId = 0 THEN clock + 1 ELSE currentConversationId)
  /\ clock' = clock + 2 /\ assistantMsgId' = clock + 2 /\ deltas' = 0 /\ failure' = "none"
  /\ thoughts' = <<>>
  /\ isLoading' = TRUE /\ inflight' = "open"
  /\ UNCHANGED <<pendingClarify, released, clarifies>>
  /\ UNCHANGED <<loopVars, streamVars, formVars>>

handleClearChat ==
  /\ messages' = <<>> /\ released' = TRUE
  /\ UNCHANGED <<conversations, currentConversationId, isLoading, pendingClarify, inflight, clock,
                 clarifies, assistantMsgId, turnConversationId, deltas, failure, thoughts>>
  /\ UNCHANGED <<loopVars, streamVars, formVars>>

\* the form is rendered when pendingClarify && !isLoading, below the messages
handleClarifySubmit ==
  /\ pendingClarify # 0 /\ ~isLoading /\ Len(messages) > 0
  /\ Len(messages) + 2 <= MaxMessages
  /\ clock + 2 <= MaxClock
  /\ LET shown == messages \o <<Message(clock + 1, "user", "answers"),
                                Message(clock + 2, "assistant", "")>>
     IN /\ messages' = shown
        /\ conversations' = Stored(conversations, currentConversationId, shown)
  /\ turnConversationId' = currentConversationId
  /\ clock' = clock + 2 /\ assistantMsgId' = clock + 2 /\ deltas' = 0 /\ failure' = "none"
  /\ thoughts' = <<>>
  /\ isLoading' = TRUE /\ pendingClarify' = 0
  /\ inflight' = "open" /\ released' = TRUE
  /\ UNCHANGED <<currentConversationId, clarifies>>
  /\ UNCHANGED <<loopVars, streamVars, formVars>>

\* case 'content_delta' of the event callback
ReceiveContentDelta ==
  /\ inflight = "open"
  /\ deltas < MaxDeltas
  /\ deltas' = deltas + 1
  /\ messages' = AddContent(messages, assistantMsgId, "ans")
  /\ conversations' = Stored(conversations, currentConversationId, AddContent(messages, assistantMsgId, "ans"))
  /\ UNCHANGED <<currentConversationId, isLoading, pendingClarify, inflight, released, clock,
                 clarifies, assistantMsgId, turnConversationId, failure, thoughts>>
  /\ UNCHANGED <<loopVars, streamVars, formVars>>

\* case 'clarify' of the event callback; the server ends the stream after it
ReceiveClarify ==
  /\ inflight = "open"
  /\ clarifies < MaxClarifies
  /\ clarifies' = clarifies + 1
  /\ pendingClarify' = clarifies + 1
  /\ inflight' = "closing" /\ released' = FALSE
  /\ UNCHANGED <<conversations, currentConversationId, messages, isLoading, clock,
                 assistantMsgId, turnConversationId, deltas, failure, thoughts>>
  /\ UNCHANGED <<loopVars, streamVars, formVars>>

\* case 'error' of the event callback; the server ends the stream after it
ReceiveError ==
  /\ inflight = "open"
  /\ messages' = SetContent(messages, assistantMsgId, "Error: message")
  /\ conversations' = Stored(conversations, currentConversationId,
                             SetContent(messages, assistantMsgId, "Error: message"))
  /\ inflight' = "failed" /\ failure' = "event"
  /\ UNCHANGED <<currentConversationId, isLoading, pendingClarify, released, clock, clarifies,
                 assistantMsgId, turnConversationId, deltas, thoughts>>
  /\ UNCHANGED <<loopVars, streamVars, formVars>>

\* the request throws: the catch block, then the finally block
RequestThrows ==
  /\ inflight = "open"
  /\ messages' = SetContent(messages, assistantMsgId, "Error: Failed to send message")
  /\ conversations' = Stored(conversations, currentConversationId,
                             SetContent(messages, assistantMsgId, "Error: Failed to send message"))
  /\ isLoading' = FALSE /\ inflight' = "none" /\ failure' = "thrown"
  /\ UNCHANGED <<currentConversationId, pendingClarify, released, clock, clarifies,
                 assistantMsgId, turnConversationId, deltas, thoughts>>
  /\ UNCHANGED <<loopVars, streamVars, formVars>>

\* the stream ended (after done, clarify or error): the finally block
ReceiveEnd ==
  /\ inflight \in {"open", "closing", "failed"}
  /\ isLoading' = FALSE /\ inflight' = "none"
  /\ UNCHANGED <<conversations, currentConversationId, messages, pendingClarify, released, clock,
                 clarifies, assistantMsgId, turnConversationId, deltas, failure, thoughts>>
  /\ UNCHANGED <<loopVars, streamVars, formVars>>

ClientNext ==
  \/ handleNewConversation
  \/ \E id \in 1..MaxClock : handleSelectConversation(id)
  \/ \E id \in 1..MaxClock : handleDeleteConversation(id)
  \/ handleSendMessage
  \/ handleClearChat
  \/ handleClarifySubmit
  \/ ReceiveContentDelta
  \/ ReceiveClarify
  \/ ReceiveError
  \/ RequestThrows
  \/ ReceiveEnd

ClientSpec == Init /\ [][ClientNext]_vars

\* ---- the clarification form -------------------------------------------------
\* questions of one clarify call
MaxQuestions == 2

\* the options of a question: none (absent or an empty array), two options, a blank option
OptionLists == {<<>>, <<"x", "y">>, <<" ">>}

\* the question lists the clarify tool schema allows (chat-stream.ts:47-67):
\* type is one of three, options and required are optional; the n-th
\* question has the id n, ids being unique
QuestionShapes ==
  [type : {"single_choice", "multiple_choice", "text"}, options : OptionLists, required : BOOLEAN]

Question(n, shape) ==
  [id |-> n, type |-> shape.type, options |-> shape.options, required |-> shape.required]

QuestionLists ==
  UNION {{[i \in 1..n |-> Question(i, shapes[i])] : shapes \in [1..n -> QuestionShapes]} :
           n \in 0..MaxQuestions}

\* what a textarea can hold
TextInputs == {"", " ", "hi"}

\* the values of answers[q.id]: undefined, a string, an array of strings
Undefined == [kind |-> "undefined", text |-> "", list |-> <<>>]

Str(t) == [kind |-> "string", text |-> t, list |-> <<>>]

Arr(l) == [kind |-> "array", text |-> "", list |-> l]

\* whether a value is truthy: undefined and '' are not, an array is
Truthy(v) == v.kind = "array" \/ (v.kind = "string" /\ v.text # "")

\* String.prototype.trim
trim(t) == IF t = " " THEN "" ELSE t

Includes(l, x) == \E i \in 1..Len(l) : l[i] = x

\* { ...prev, [questionId]: value }
handleSingleChoice(prev, questionId, value) == [prev EXCEPT ![questionId] = Str(value)]

\* current = prev[questionId] || []; checked ? [...current, value] : current.filter(v => v !== value)
handleMultipleChoice(prev, questionId, value, checked) ==
  LET current == IF Truthy(prev[questionId]) THEN prev[questionId].list ELSE <<>>
      Other(v) == v # value
  IN [prev EXCEPT ![questionId] =
        Arr(IF checked THEN Append(current, value) ELSE SelectSeq(current, Other))]

\* { ...prev, [questionId]: value }
handleTextInput(prev, questionId, value) == [prev EXCEPT ![questionId] = Str(value)]

\* questions.map(q => ({ questionId: q.id, answer: answers[q.id] || (multiple_choice ? [] : '') }))
formattedAnswers(questions, prev) ==
  [i \in 1..Len(questions) |->
     [questionId |-> questions[i].id,
      answer |-> IF Truthy(prev[questions[i].id]) THEN prev[questions[i].id]
                 ELSE IF questions[i].type = "multiple_choice" THEN Arr(<<>>) ELSE Str("")]]

\* variant: a required text answer is accepted as it is typed
AcceptedUntrimmed(q, answer) ==
  \/ ~q.required
  \/ /\ Truthy(answer)
     /\ IF answer.kind = "array" THEN Len(answer.list) > 0 ELSE Len(answer.text) > 0

\* the callback of questions.every in isValid
Accepted(q, answer) ==
  \/ ~q.required
  \/ /\ Truthy(answer)
     /\ IF answer.kind = "array" THEN Len(answer.list) > 0 ELSE Len(trim(answer.text)) > 0

isValid(questions, prev) ==
  \A i \in 1..Len(questions) : Accepted(questions[i], prev[questions[i].id])

\* the form is mounted with the questions of a clarify call; answers = {}
FormInit ==
  /\ LoopInit /\ ReaderInit
  /\ conversations = {} /\ currentConversationId = 0 /\ messages = <<>>
  /\ isLoading = FALSE /\ pendingClarify = 0 /\ inflight = "none"
  /\ released = FALSE /\ clock = 0 /\ clarifies = 0
  /\ assistantMsgId = 0 /\ deltas = 0 /\ failure = "none" /\ thoughts = <<>>
  /\ turnConversationId = 0
  /\ fQuestions \in QuestionLists
  /\ fAnswers = [i \in 1..Len(fQuestions) |-> Undefined]
  /\ fSubmitted = [done |-> FALSE, answers |-> <<>>]

FormUnchanged ==
  UNCHANGED <<fQuestions, loopVars, streamVars, conversations, currentConversationId, messages,
              isLoading, pendingClarify, inflight, released, clock, clarifies, assistantMsgId, turnConversationId,
              deltas, failure, thoughts>>

\* the user picks the radio button of an option of question i
PickOption(i, option) ==
  /\ ~fSubmitted.done
  /\ i \in 1..Len(fQuestions)
  /\ fQuestions[i].type = "single_choice" /\ Includes(fQuestions[i].options, option)
  /\ fAnswers' = handleSingleChoice(fAnswers, fQuestions[i].id, option)
  /\ UNCHANGED fSubmitted /\ FormUnchanged

\* the user clicks the checkbox of an option of question i: e.target.checked is
\* the negation of what the checkbox showed
ToggleOption(i, option) ==
  /\ ~fSubmitted.done
  /\ i \in 1..Len(fQuestions)
  /\ fQuestions[i].type = "multiple_choice" /\ Includes(fQuestions[i].options, option)
  /\ LET shown == IF Truthy(fAnswers[fQuestions[i].id]) THEN fAnswers[fQuestions[i].id].list ELSE <<>>
     IN fAnswers' = handleMultipleChoice(fAnswers, fQuestions[i].id, option, ~Includes(shown, option))
  /\ UNCHANGED fSubmitted /\ FormUnchanged

\* the user edits the textarea of question i
TypeText(i, value) ==
  /\ ~fSubmitted.done
  /\ i \in 1..Len(fQuestions)
  /\ fQuestions[i].type = "text"
  /\ fAnswers' = handleTextInput(fAnswers, fQuestions[i].id, value)
  /\ UNCHANGED fSubmitted /\ FormUnchanged

\* the submit button, disabled={!isValid || isLoading}
handleSubmit ==
  /\ ~fSubmitted.done
  /\ isValid(fQuestions, fAnswers) /\ ~isLoading
  /\ fSubmitted' = [done |-> TRUE, answers |-> formattedAnswers(fQuestions, fAnswers)]
  /\ UNCHANGED fAnswers /\ FormUnchanged

FormNext ==
  \/ \E i \in 1..MaxQuestions, option \in {"x", "y", " "} : PickOption(i, option)
  \/ \E i \in 1..MaxQuestions, option \in {"x", "y", " "} : ToggleOption(i, option)
  \/ \E i \in 1..MaxQuestions, value \in TextInputs : TypeText(i, value)
  \/ handleSubmit

FormSpec == FormInit /\ [][FormNext]_vars

\* ---- the reasoning shown for a turn ----------------------------------------
\* the payload of the n-th reasoning delta of a request
Thought(n) == IF n = 1 THEN "a" ELSE "b"

\* arr[index] for a zero-based index: undefined (here "") outside the elements
ElementAt(arr, index) == IF index \in 0..(Len(arr) - 1) THEN arr[index + 1] ELSE ""

\* arr[index] = v for a zero-based index: index arr.length adds an element, a
\* negative index sets a property of the array object and leaves its elements alone
SetElementAt(arr, index, v) ==
  IF index \in 0..(Len(arr) - 1) THEN [arr EXCEPT ![index + 1] = v]
  ELSE IF index = Len(arr) THEN Append(arr, v)
  ELSE arr

\* currentReasoning = msg.reasoning || ['']; lastIndex = currentReasoning.length - 1;
\* updated = [...currentReasoning]; updated[lastIndex] = (updated[lastIndex] || '') + delta
\* (an array, empty or not, is truthy; the spread copies the elements only)
AppendToLast(reasoning, delta) ==
  SetElementAt(reasoning, Len(reasoning) - 1, ElementAt(reasoning, Len(reasoning) - 1) \o delta)

\* case 'reasoning_delta': prev.map over the messages shown
AddReasoning(msgs, id, delta) ==
  [i \in 1..Len(msgs) |->
     IF msgs[i].id = id THEN [msgs[i] EXCEPT !.reasoning = AppendToLast(@, delta)] ELSE msgs[i]]

\* case 'tool_result': reasoning: [...(msg.reasoning || []), '']
OpenSegment(msgs, id) ==
  [i \in 1..Len(msgs) |->
     IF msgs[i].id = id THEN [msgs[i] EXCEPT !.reasoning = Append(@, "")] ELSE msgs[i]]

\* case 'reasoning_delta' of the event callback
ReceiveReasoningDelta ==
  /\ inflight = "open"
  /\ assistantMsgId <= 2 * MaxReasoningTurns
  /\ Len(thoughts) < MaxThoughts
  /\ thoughts' = Append(thoughts, Thought(Len(thoughts) + 1))
  /\ messages' = AddReasoning(messages, assistantMsgId, Thought(Len(thoughts) + 1))
  /\ conversations' = Stored(conversations, currentConversationId,
                             AddReasoning(messages, assistantMsgId, Thought(Len(thoughts) + 1)))
  /\ UNCHANGED <<currentConversationId, isLoading, pendingClarify, inflight, released, clock,
                 clarifies, assistantMsgId, turnConversationId, deltas, failure>>
  /\ UNCHANGED <<loopVars, streamVars, formVars>>

\* case 'tool_result' of the event callback
ReceiveToolResult ==
  /\ inflight = "open"
  /\ assistantMsgId <= 2 * MaxReasoningTurns
  /\ \A i \in 1..Len(messages) :
       messages[i].id = assistantMsgId => Len(messages[i].reasoning) < MaxSegments
  /\ messages' = OpenSegment(messages, assistantMsgId)
  /\ conversations' = Stored(conversations, currentConversationId, OpenSegment(messages, assistantMsgId))
  /\ UNCHANGED <<currentConversationId, isLoading, pendingClarify, inflight, released, clock,
                 clarifies, assistantMsgId, turnConversationId, deltas, failure, thoughts>>
  /\ UNCHANGED <<loopVars, streamVars, formVars>>

TurnNext == ClientNext \/ ReceiveReasoningDelta \/ ReceiveToolResult

TurnSpec == Init /\ [][TurnNext]_vars

\* ---- properties ---------------------------------------------------------
\* the tool calls of the latest model response
LatestCalls == extractResponse(lastOutput).toolCalls

\* how many function_call_output items of transcript tr answer call id
Answers(tr, id) ==
  Cardinality({j \in 1..Len(tr) : tr[j].type = "function_call_output" /\ tr[j].call_id = id})

Terminal(e) == e.type \in {"done", "clarify", "error"}

TerminalCount == Cardinality({i \in 1..Len(events) : Terminal(events[i])})

\* C1: in every transcript a request passes to the model, every function_call
\* item has exactly one function_call_output item with its call_id.
C1_EveryCallMatched ==
  \A n \in 1..Len(submitted) :
    \A i \in 1..Len(submitted[n]) :
      submitted[n][i].type = "function_call" => Answers(submitted[n], submitted[n][i].call_id) = 1

C3_ResumedTranscript ==
  (mode = "continue" /\ Len(submitted) >= 1) =>
    submitted[1] = reqCtx.input \o reqCtx.rawOutputItems
                   \o <<Item("function_call_output", reqCtx.clarifyCallId, "", Serialize(answers))>>

C3_Witness ==
  /\ mode = "continue" /\ target = "EdgeStream" /\ Len(submitted) >= 1
  /\ answers.answers # ""
  /\ Cardinality({i \in 1..Len(reqCtx.rawOutputItems) :
                    IsClarifyFunctionCall(reqCtx.rawOutputItems[i])}) = 2

\* C4: when an iteration that did not pause has run its tool calls, the
\* function_call_output items it appended are as many as the non-clarify tool
\* calls of its model response.
C4_ResultPerNonClarifyCall ==
  (pc = "call" /\ Len(submitted) >= 1 /\ result = "none") =>
    iterAppended = Cardinality({i \in 1..Len(LatestCalls) : LatestCalls[i].name # "clarify"})

\* C5 as stated: a streaming request never sends an event after a terminal
\* event, and a finished streaming request has sent exactly one.
C5_OneTerminalEvent ==
  target \in StreamTargets =>
    /\ \A i \in 1..Len(events) : Terminal(events[i]) => i = Len(events)
    /\ pc = "done" => TerminalCount = 1

\* C5 amended: the same for every streaming request whose event stream was
\* opened (the edge function refuses a request with missing configuration by
\* HTTP 500 before it opens the stream).
C5_OneTerminalEventOnOpenStream ==
  (target \in StreamTargets /\ streamOpen) =>
    /\ \A i \in 1..Len(events) : Terminal(events[i]) => i = Len(events)
    /\ pc = "done" => TerminalCount = 1

C5_Witness ==
  /\ target \in StreamTargets /\ streamOpen /\ pc = "done"
  /\ \E i \in 1..Len(events) : events[i].type = "tool_result"
  /\ events[Len(events)].type = "error"

\* C6: a request reports a complete turn only when the latest model response
\* has no tool call.
C6_CompleteOnlyWithoutToolCalls ==
  result = "complete" => Len(LatestCalls) = 0

C8_ToolFailureIsAResult ==
  [][(nExec' = nExec + 1 /\ "error" \in DOMAIN lastExec'.value) =>
       /\ input' = Append(input, Item("function_call_output", toolCalls[ti].id, "",
                                      Serialize([error |-> lastExec'.value.error])))
       /\ result = "none" /\ result' = "none"
       /\ ti' = ti + 1
       /\ pc' = IF ti < Len(toolCalls) THEN "tools" ELSE "call"]_vars

C8_Witness ==
  /\ lastExec.tool = "web_search" /\ lastExec.env.outcome = "throw"
  /\ Len(toolCalls) = 2 /\ pc = "tools" /\ ti = 2 /\ iterAppended = 1

\* C9: an executor never raises; without its credential it makes no request
\* and returns an {error} object, and it returns an {error} object when the
\* request fails by status or by exception.
C9_ExecutorsNeverRaise ==
  lastExec.tool # "" =>
    /\ ~lastExec.raised
    /\ (~lastExec.env.key \/ lastExec.env.outcome # "ok") => "error" \in DOMAIN lastExec.value
    /\ ~lastExec.env.key => lastExec.requests = 0

C9_Witness ==
  lastExec.tool = "web_fetch" /\ lastExec.env.key /\ lastExec.env.outcome = "body_throw"

\* C10: after a model call answered with a non-success status the request
\* has ended with an error (an error event when streaming), and it makes no
\* further model call and runs no executor.
C10_ProviderFailureIsFatal ==
  /\ [](lastCall.outcome = "http_error" =>
          /\ result = "error" /\ pc = "done"
          /\ target \in StreamTargets => events[Len(events)].type = "error")
  /\ [][(lastCall.outcome = "http_error" /\ reqId' = reqId) =>
          (totalCalls' = totalCalls /\ nExec' = nExec)]_vars

C10_Witness ==
  lastCall.outcome = "http_error" /\ Len(submitted) = 2 /\ nExec >= 1

\* C11: after a streamed model call whose body ended with no final response
\* event handled, the request has ended with an error event as its last
\* event, it has sent neither done nor clarify, no executor ran after that
\* call and the transcript is the one that call submitted.
C11_NoFinalEventIsFatal ==
  (target \in StreamTargets /\ lastCall.outcome \in {"no_final", "unterminated"}) =>
    /\ result = "error" /\ pc = "done"
    /\ events[Len(events)].type = "error"
    /\ \A i \in 1..Len(events) : events[i].type \notin {"done", "clarify"}
    /\ iterExec = 0
    /\ input = submitted[Len(submitted)]

C11_Witness ==
  /\ target \in StreamTargets /\ lastCall.outcome = "no_final"
  /\ Len(submitted) = 2 /\ nExec >= 1
  /\ Len(events) >= 2 /\ events[Len(events) - 1].type = "content_delta"

\* the concatenation of the deltas of the content_delta events
RECURSIVE ContentText(_)
ContentText(evs) ==
  IF Len(evs) = 0 THEN ""
  ELSE (IF Head(evs).type = "content_delta" THEN Head(evs).name ELSE "") \o ContentText(Tail(evs))

\* C12: when a streaming request has completed, the concatenation of its
\* content_delta events is the response text every non-streaming handler of
\* the deployment returns for the same request, model responses and tool results.
C12_DeltasEqualResponseText ==
  (target \in StreamTargets /\ result = "complete") =>
    \A t \in Peers(target, mode) :
      LET r == Replay(t, PeerStart(t), history)
      IN (r.result = "complete" /\ ~r.diverged) => ContentText(events) = r.responseText

\* the tool calls among the first n of the loop's toolCalls that have an executor
HasExecutor(tc) == tc.name \in {"web_search", "web_fetch"}

Executed(n) == SelectSeq(SubSeq(toolCalls, 1, n), HasExecutor)

\* C13: while a request runs, the function_call_output items appended since
\* the latest model call are the last items of the transcript and answer, in
\* order, the tool calls the for loop has executed so far; a step runs at
\* most one executor or model call, and a step that runs the executor of a
\* tool call appends its output before anything else happens.
C13_ToolCallsInOrder ==
  /\ [](pc \in {"tools", "call"} =>
          /\ iterAppended = Len(Executed(IF ti = 0 THEN 0 ELSE ti - 1))
          /\ \A j \in 1..iterAppended :
               LET item == input[Len(input) - iterAppended + j]
               IN item.type = "function_call_output" /\ item.call_id = Executed(ti - 1)[j].id)
  /\ [][reqId' = reqId =>
          /\ (totalCalls' - totalCalls) + (nExec' - nExec) <= 1
          /\ nExec' = nExec + 1 =>
               /\ lastExec'.tool = toolCalls[ti].name
               /\ Len(input') = Len(input) + 1
               /\ input'[Len(input')].call_id = toolCalls[ti].id]_vars

C13_Witness ==
  /\ pc = "call" /\ iterAppended = 2
  /\ toolCalls[1].name = "web_fetch" /\ toolCalls[2].name = "web_search"
  /\ input[Len(input)].call_id = toolCalls[2].id

\* C14: the pendingContext object of a resumed request stays as it arrived.
C14_PendingContextUnchanged ==
  mode = "continue" => pendingContext = reqCtx

\* C15: the first transcript a resumed request sends is the one resumed from
\* the serialized and deserialized PendingContext, whether the handler read
\* the context from the request body or was handed the object the loop created.
C15_RoundTripResume ==
  (mode = "continue" /\ Len(submitted) >= 1 /\ result # "pending_clarification") =>
    submitted[1] = ResumeInput(target, pending, answers)

C17_NoPendingAfterRelease ==
  released => pendingClarify = 0

IsToolStep(h) == h.kind = "tool"

\* C18: at every state of a streaming request, each non-streaming handler of
\* the deployment, given the same request, model responses and tool results,
\* has submitted the same transcripts and run the same executors in the same
\* order, and when the streaming request has ended it has ended in the
\* corresponding state (with an equal PendingContext when paused).
C18_StreamingMatchesNonStreaming ==
  (target \in StreamTargets /\ reqId > 0) =>
    \A t \in Peers(target, mode) :
      LET r == Replay(t, PeerStart(t), history)
      IN /\ ~r.diverged
         /\ r.submitted = submitted
         /\ r.execs = [i \in 1..Len(SelectSeq(history, IsToolStep)) |->
                         SelectSeq(history, IsToolStep)[i].call]
         /\ pc = "done" =>
              /\ r.pc = "done" /\ r.result = result
              /\ result = "pending_clarification" => r.pendingContext = held

\* C19: a request that met a missing model-API key or endpoint has ended
\* with a reported error without a model call or an executor run, and a
\* streaming one has sent neither done nor clarify.
C19_MissingConfigIsFatal ==
  (reqId > 0 /\ (~azure.key \/ ~azure.endpoint)) =>
    /\ result = "error" /\ pc = "done"
    /\ submitted = <<>> /\ history = <<>> /\ nExec = 0
    /\ \A i \in 1..Len(events) : events[i].type \notin {"done", "clarify", "start"}

C19_Witness ==
  /\ mode = "continue" /\ target = "NetlifyContinue"
  /\ azure.key /\ ~azure.endpoint /\ result = "error" /\ totalCalls = 1

\* the lines of ls whose payload parses or that are not data lines
Parses(line) == line.form # "garbage"

Parsable(ls) == SelectSeq(ls, Parses)

\* the lines the for loop has handled
Handled == SubSeq(Delivered(sBody), 1, IF sPos > Len(Delivered(sBody)) THEN Len(Delivered(sBody)) ELSE sPos)

\* C20: the locals of the stream reader and the events it forwarded are what
\* reading the handled lines without the unparsable ones gives, and handling
\* an unparsable line changes none of them.
C20_UnparsableLineSkipped ==
  /\ [](sAcc = ReadLines(NoStream, Parsable(Handled)))
  /\ [][(sPos < Len(Delivered(sBody)) /\ Delivered(sBody)[sPos + 1].form = "garbage"
         /\ sPos' = sPos + 1) => sAcc' = sAcc]_vars

C20_Witness ==
  /\ sPos = 3 /\ Len(sBody.lines) = 3
  /\ sBody.lines[1].type = "response.output_text.delta"
  /\ sBody.lines[2].form = "garbage"
  /\ sBody.lines[3].type = "response.completed"
  /\ sAcc.hasResponse /\ sAcc.currentContentText = "c" /\ Len(sAcc.forwarded) = 1
\* the text the callback or the catch block puts in place of the reply
ErrorText(f) == IF f = "event" THEN "Error: message" ELSE "Error: Failed to send message"

\* C21: the step on which a request fails (an error event arrives, or the
\* request throws) leaves the assistant message of that turn among the
\* messages shown with exactly the error text as its content and changes no
\* other message, and when the failed request has ended isLoading is false.
C21_ErrorReplacesReply ==
  [][(failure' # "none" /\ failure = "none") =>
       /\ \E i \in 1..Len(messages') :
            messages'[i].id = assistantMsgId /\ messages'[i].content = ErrorText(failure')
       /\ Len(messages') = Len(messages)
       /\ \A i \in 1..Len(messages) :
            messages[i].id # assistantMsgId => messages'[i] = messages[i]
       /\ inflight' = "none" => ~isLoading']_vars
IsNonClarifyFunctionCall(item) == item.type = "function_call" /\ item.name # "clarify"

\* the non-clarify tool calls the model returned over the steps of hist, in order
RECURSIVE ReturnedToolCalls(_)
ReturnedToolCalls(hist) ==
  IF Len(hist) = 0 THEN <<>>
  ELSE LET fcs == IF Head(hist).kind = "model"
                  THEN SelectSeq(Head(hist).output, IsNonClarifyFunctionCall) ELSE <<>>
       IN [i \in 1..Len(fcs) |-> [id |-> fcs[i].call_id, name |-> fcs[i].name]]
          \o ReturnedToolCalls(Tail(hist))

\* the reasoning of the model calls of hist, in call order
RECURSIVE ReturnedReasoning(_)
ReturnedReasoning(hist) ==
  IF Len(hist) = 0 THEN <<>>
  ELSE LET rs == IF Head(hist).kind = "model"
                 THEN SelectSeq(Head(hist).output, IsReasoning) ELSE <<>>
       IN [i \in 1..Len(rs) |-> rs[i].payload] \o ReturnedReasoning(Tail(hist))

\* C22: when a request has completed, the tool calls it reports are the
\* non-clarify tool calls the model returned during the request, over all
\* responses and in order, and the reasoning it reports is the reasoning of
\* its model calls in call order.
C22_ReportedHistory ==
  result = "complete" =>
    /\ allToolCalls = ReturnedToolCalls(history)
    /\ reasoningSummary = ReturnedReasoning(history)

\* C23: every model call of every request declares the same tool list,
\* exactly web_search, web_fetch and clarify.
C23_ToolsDeclared ==
  \A i \in 1..Len(calls) : calls[i].tools = <<"web_search", "web_fetch", "clarify">>

\* C24: in a new turn the reasoning effort the client chose is the effort of
\* every model call of the request, and the effort stored in the
\* PendingContext when the turn pauses.
C24_ChosenEffortSent ==
  mode = "new" =>
    /\ \A i \in 1..Len(calls) : calls[i].effort = reqBody.modelConfig.effort
    /\ result = "pending_clarification" => held.reasoningEffort = reqBody.modelConfig.effort

IsPrefix(s, t) == Len(s) <= Len(t) /\ SubSeq(t, 1, Len(s)) = s

IsStrictPrefix(s, t) == Len(s) < Len(t) /\ SubSeq(t, 1, Len(s)) = s

\* C25: within a request the transcript only grows by appending: the
\* transcript of each model call has the transcript of the previous call as a
\* strict prefix, and the transcript being built extends the last one sent.
C25_TranscriptAppendOnly ==
  /\ \A i \in 1..Len(calls) : calls[i].input = submitted[i]
  /\ \A i \in 1..(Len(calls) - 1) : IsStrictPrefix(calls[i].input, calls[i + 1].input)
  /\ Len(calls) > 0 => IsPrefix(calls[Len(calls)].input, input)

\* a third model call whose transcript holds the outputs of two rounds of tools
C25_Witness ==
  /\ Len(calls) = 3
  /\ IsStrictPrefix(calls[2].input, calls[3].input)
  /\ \E i \in 1..Len(calls[3].input) : calls[3].input[i].type = "function_call_output"

\* the positions of the items of s that are of one of the types
PositionsOf(s, types) == {i \in 1..Len(s) : s[i].type \in types}

\* the k-th smallest element of a set of positions
Kth(ps, k) == CHOOSE i \in ps : Cardinality({j \in ps : j < i}) = k - 1

\* the items of s at the positions ps, in order
ItemsAt(s, ps) == [k \in 1..Cardinality(ps) |-> s[Kth(ps, k)]]

\* C26: from the latest response extractResponse returns as rawOutputItems the
\* provider's items of type reasoning or function_call, in order and
\* unmodified, and one ToolCall per function_call item whose id is the item's
\* call_id; in the tools phase of the loop the transcript is the transcript
\* sent, then exactly these items, then only tool results.
C26_RawItemsEchoed ==
  LET x == extractResponse(lastOutput)
      fcs == ItemsAt(lastOutput, PositionsOf(lastOutput, {"function_call"}))
      sent == submitted[Len(submitted)]
      n == Len(sent) + Len(x.rawOutputItems)
  IN /\ x.rawOutputItems = ItemsAt(lastOutput, PositionsOf(lastOutput, {"reasoning", "function_call"}))
     /\ Len(x.toolCalls) = Len(fcs)
     /\ \A k \in 1..Len(fcs) :
          x.toolCalls[k].id = fcs[k].call_id /\ x.toolCalls[k].name = fcs[k].name
     /\ pc = "tools" =>
          /\ Len(input) >= n
          /\ SubSeq(input, 1, n) = sent \o x.rawOutputItems
          /\ \A i \in (n + 1)..Len(input) : input[i].type = "function_call_output"

\* a response with reasoning, two function calls and text, one tool result appended
C26_Witness ==
  /\ pc = "tools"
  /\ Len(extractResponse(lastOutput).rawOutputItems) = 3
  /\ Len(lastOutput) = 4
  /\ input[Len(input)].type = "function_call_output"

\* the delta events the provider streams during one model call, in arrival order
ArrivedDeltas(h) ==
  LET rs == ItemsAt(h.output, PositionsOf(h.output, {"reasoning"}))
      ms == ItemsAt(h.output, PositionsOf(h.output, {"message"}))
      text == IF Len(ms) > 0 THEN ms[1].payload ELSE ""
  IN IF h.outcome = "http_error" THEN <<>>
     ELSE (IF Len(rs) > 0 /\ rs[1].payload # ""
           THEN <<Event("reasoning_delta", rs[1].payload)>> ELSE <<>>)
          \o [i \in 1..Len(Pieces(text)) |-> Event("content_delta", Pieces(text)[i])]

\* the deltas and tool_call events of the steps of hist, step by step
RECURSIVE ForwardTrace(_)
ForwardTrace(hist) ==
  IF Len(hist) = 0 THEN <<>>
  ELSE (IF Head(hist).kind = "model" THEN ArrivedDeltas(Head(hist))
        ELSE <<Event("tool_call", Head(hist).call.name)>>)
       \o ForwardTrace(Tail(hist))

IsLoopMark(e) == e.type \in {"reasoning_delta", "content_delta", "tool_call"}

\* C27: a streaming handler forwards the reasoning and content deltas of each
\* model call in arrival order and exactly once, after everything the loop did
\* on earlier responses and before anything it does on the call's final
\* response (tool calls, the clarify, done or error event).
C27_DeltasForwardedInOrder ==
  target \in StreamTargets =>
    /\ SelectSeq(events, IsLoopMark) = ForwardTrace(history)
    /\ \A i \in 1..Len(events) :
         events[i].type \in {"done", "clarify", "error"} => i = Len(events)

\* a completed streamed request: the deltas of its first call, a tool call,
\* then the two content deltas of the second call
C27_Witness ==
  /\ target \in StreamTargets /\ result = "complete"
  /\ \E i, j, k \in 1..Len(events) :
       /\ i < j /\ j < k /\ k < Len(events)
       /\ events[i] = Event("content_delta", "note")
       /\ events[j].type = "tool_call"
       /\ events[k] = Event("content_delta", "ans")
       /\ events[k + 1] = Event("content_delta", "wer")

\* the positions of s that hold the result of a clarify call found earlier in s
ClarifyResults(s) ==
  {i \in 1..Len(s) :
     /\ s[i].type = "function_call_output"
     /\ \E j \in 1..(i - 1) : IsClarifyFunctionCall(s[j]) /\ s[j].call_id = s[i].call_id}

\* C28: a resumed turn whose response holds a clarify call pauses again, and
\* the PendingContext it hands out holds as input the full transcript of the
\* resumed turn; a turn resumed for the n-th time starts from a transcript
\* with n clarify results, each after its clarify call.
C28_RecursiveClarification ==
  (mode = "continue" /\ Len(submitted) > 0) =>
    /\ Cardinality(ClarifyResults(submitted[1])) = cycles
    /\ submitted[1] = ResumeInput(target, reqCtx, answers)
    /\ (pc = "done" /\ lastCall.outcome = "ok" /\ result # "error"
          /\ \E i \in 1..Len(lastOutput) : IsClarifyFunctionCall(lastOutput[i]))
         => /\ result = "pending_clarification"
            /\ held.input = input
            /\ IsPrefix(submitted[1], held.input)
            /\ held.rawOutputItems = extractResponse(lastOutput).rawOutputItems
            /\ pending = JSONparse(JSONstringify(held))

\* a turn paused, resumed, paused again and resumed for the second time
C28_Witness ==
  /\ mode = "continue" /\ cycles = 2 /\ Len(submitted) = 1
  /\ Cardinality(ClarifyResults(submitted[1])) = 2
  /\ Len(reqCtx.input) > Len(BuildInput(target, Messages))

\* C29: a request that has made a model call ends only when that call failed,
\* or when its response holds no tool call, or holds a clarify call: as long
\* as each response holds a non-clarify tool call and no clarify call the
\* request goes on to another model call, however many it has made.
C29_EndsOnlyWithoutToolCalls ==
  (pc = "done" /\ Len(submitted) > 0) =>
    \/ lastCall.outcome # "ok"
    \/ Len(LatestCalls) = 0
    \/ \E i \in 1..Len(LatestCalls) : IsClarifyCall(LatestCalls[i])

\* C30: every model call of a resumed turn is sent with the model and the
\* reasoning effort stored in the PendingContext, and its first transcript is
\* the one rebuilt from the PendingContext and the answers, whatever messages
\* list or modelConfig the same request carries.
C30_ResumedTurnUsesStoredConfig ==
  mode = "continue" =>
    /\ \A i \in 1..Len(calls) :
         /\ calls[i].model = MODEL_DEPLOYMENT_MAP(target, reqCtx.model)
         /\ calls[i].effort = reqCtx.reasoningEffort
    /\ Len(calls) > 0 => calls[1].input = ResumeInput(target, reqCtx, answers)
    /\ cfg \in {NoConfig, ContinueConfig(target, reqCtx)}

\* a resumed request that also carries messages and another modelConfig has called the model
C30_Witness ==
  /\ mode = "continue" /\ Len(calls) > 0
  /\ reqBody.messagesOk
  /\ reqBody.modelConfig.model # reqCtx.model
  /\ reqBody.modelConfig.effort # reqCtx.reasoningEffort

\* C31: a resumed turn is sent to the deployment the model calls of the
\* paused request were sent to.
C31_SameDeploymentAfterResume ==
  (mode = "continue" /\ pc # "idle" /\ cfg # NoConfig /\ result # "pending_clarification") =>
    /\ cfg.deployment = pendingDeployment
    /\ \A i \in 1..Len(calls) : calls[i].model = pendingDeployment

\* whether a delivered response holds a function call whose arguments are one of the texts
HoldsArguments(h, texts) ==
  /\ h.kind = "model" /\ h.outcome = "ok"
  /\ \E i \in 1..Len(h.output) : IsFunctionCall(h.output[i]) /\ h.output[i].payload \in texts

\* the request ended as a fatal error on its latest response, from which
\* nothing was executed or appended and which gave no complete or clarify result
EndedOnResponse(i) ==
  /\ i = Len(history)
  /\ pc = "done" /\ result = "error"
  /\ input = submitted[Len(submitted)]
  /\ target \in StreamTargets => events[Len(events)].type = "error"

\* C32 as stated: a response with a function call whose arguments string is
\* not valid JSON ends the turn as a fatal error; no tool call of the response
\* is executed, nothing of it is appended to the transcript, and no complete
\* or clarify result is produced.
C32_InvalidArgumentsAreFatal ==
  \A i \in 1..Len(history) :
    HoldsArguments(history[i], {"", "{bad"}) => EndedOnResponse(i)

\* C32, amended: the same for an arguments string that is not empty and is not
\* valid JSON; an empty arguments string is read as '{}'.
C32_MalformedArgumentsAreFatal ==
  \A i \in 1..Len(history) :
    HoldsArguments(history[i], {"{bad"}) => EndedOnResponse(i)

\* a response whose first call is well formed and whose second is not
C32_Witness ==
  /\ Len(history) > 0
  /\ HoldsArguments(history[Len(history)], {"{bad"})
  /\ Len(SelectSeq(history[Len(history)].output, IsFunctionCall)) = 2
  /\ result = "error"

\* the texts of w that are followed by a newline, in order
RECURSIVE TerminatedLines(_)
TerminatedLines(w) ==
  IF \A i \in 1..Len(w) : w[i] # "\n" THEN <<>>
  ELSE LET k == CHOOSE i \in 1..Len(w) : w[i] = "\n" /\ \A j \in 1..(i - 1) : w[j] # "\n"
       IN <<SubSeq(w, 1, k - 1)>> \o TerminatedLines(SubSeq(w, k + 1, Len(w)))

\* the characters received so far
Received == SubSeq(cStream, 1, IF cPos > Len(cStream) THEN Len(cStream) ELSE cPos)

\* the locals of processAzureStream after the lines of w, each handled once and in order
HandledOnce(w) ==
  ReadLines(NoStream, [i \in 1..Len(TerminatedLines(w)) |-> LineOf(TerminatedLines(w)[i])])

\* C33: however the upstream text is cut into chunks, the forwarded deltas,
\* the accumulated reasoning and content text and the recorded final response
\* are those of handling every newline-terminated line of the text received
\* once and in order; a last line without newline is never handled.
C33_ChunkingDoesNotMatter ==
  cAcc = HandledOnce(Received)

\* a text of two delta lines and a final line without newline has been read
\* to its end: the last line was left in the buffer
C33_Witness ==
  /\ cStream = <<"r", "\n", "c", "\n", "f">>
  /\ cPos = Len(cStream) + 1
  /\ cBuffer = <<"f">>
  /\ Len(cAcc.forwarded) = 2 /\ ~cAcc.hasResponse

\* C34: in a streamed request every tool_call event is followed at once by
\* the tool_result event of the same tool, so the two kinds alternate starting
\* with tool_call and no model call or terminal event comes between them; when
\* the tool_result event has been sent the call's result is the last item of
\* the transcript, before any further tool_call event.
C34_ToolEventsAlternate ==
  target \in StreamTargets =>
    /\ \A i \in 1..Len(events) :
         /\ events[i].type = "tool_call" =>
              i < Len(events) /\ events[i + 1] = Event("tool_result", events[i].name)
         /\ events[i].type = "tool_result" =>
              i > 1 /\ events[i - 1] = Event("tool_call", events[i].name)
    /\ (Len(events) > 0 /\ events[Len(events)].type = "tool_result") =>
         /\ history[Len(history)].kind = "tool"
         /\ input[Len(input)] = FunctionCallOutput(history[Len(history)].call.id, lastExec.value)

\* a streamed request that ran a search and a fetch and completed
C34_Witness ==
  /\ target \in StreamTargets /\ result = "complete"
  /\ \E i, j \in 1..Len(events) :
       /\ i + 1 < j
       /\ events[i] = Event("tool_call", "web_search")
       /\ events[j] = Event("tool_call", "web_fetch")

\* the concatenation of the texts of a sequence of strings
RECURSIVE Concat(_)
Concat(texts) == IF Len(texts) = 0 THEN "" ELSE Head(texts) \o Concat(Tail(texts))

\* C35: while the assistant message of the running turn is shown, the
\* concatenation of its reasoning segments is the concatenation of the
\* reasoning deltas received so far, in arrival order.
C35_ReasoningKept ==
  \A i \in 1..Len(messages) :
    (messages[i].id = assistantMsgId /\ inflight = "open") =>
      Concat(messages[i].reasoning) = Concat(thoughts)

\* an answer that says something: a text that is not blank, or at least one option
NonEmptyAnswer(v) ==
  \/ v.kind = "string" /\ v.text \notin {"", " "}
  \/ v.kind = "array" /\ Len(v.list) > 0

\* the user gave no input to the question, or took it back
Unanswered(v) == v \in {Undefined, Str(""), Arr(<<>>)}

\* C36: a submitted answer set has one entry per question, in question order;
\* the entry of a required question is not empty; an optional question left
\* unanswered is submitted as '' or, for multiple_choice, as [].
C36_AnswerSetWellFormed ==
  fSubmitted.done =>
    /\ Len(fSubmitted.answers) = Len(fQuestions)
    /\ \A i \in 1..Len(fQuestions) :
         /\ fSubmitted.answers[i].questionId = fQuestions[i].id
         /\ fQuestions[i].required => NonEmptyAnswer(fSubmitted.answers[i].answer)
         /\ (~fQuestions[i].required /\ Unanswered(fAnswers[fQuestions[i].id])) =>
              fSubmitted.answers[i].answer =
                (IF fQuestions[i].type = "multiple_choice" THEN Arr(<<>>) ELSE Str(""))

\* a form with a required text question answered and an optional
\* multiple_choice question whose only box was ticked and unticked was submitted
C36_Witness ==
  /\ fSubmitted.done /\ Len(fQuestions) = 2
  /\ fQuestions[1].type = "text" /\ fQuestions[1].required
  /\ fQuestions[2].type = "multiple_choice" /\ ~fQuestions[2].required
  /\ fAnswers[2] = Arr(<<>>)
  /\ fSubmitted.answers[1].answer = Str("hi")

\* the answers after one input of the user to the form as it is rendered
AfterOneInput(questions, prev) ==
  UNION {
    {handleSingleChoice(prev, questions[i].id, questions[i].options[k]) :
       k \in {n \in 1..Len(questions[i].options) : questions[i].type = "single_choice"}}
    \cup
    {handleMultipleChoice(prev, questions[i].id, questions[i].options[k],
                          ~Includes(IF Truthy(prev[questions[i].id]) THEN prev[questions[i].id].list
                                    ELSE <<>>, questions[i].options[k])) :
       k \in {n \in 1..Len(questions[i].options) : questions[i].type = "multiple_choice"}}
    \cup
    {handleTextInput(prev, questions[i].id, value) :
       value \in {t \in TextInputs : questions[i].type = "text"}}
    : i \in 1..Len(questions)}

\* the questions whose answer isValid accepts
AcceptedQuestions(questions, prev) ==
  {i \in 1..Len(questions) : Accepted(questions[i], prev[questions[i].id])}

\* C37: whatever questions the clarify schema allows, the user can bring the
\* form to a state in which it can be submitted: as long as the submit button
\* is disabled, some input makes isValid accept one more question.
C37_FormCanBeCompleted ==
  (~fSubmitted.done /\ ~isValid(fQuestions, fAnswers)) =>
    \E next \in AfterOneInput(fQuestions, fAnswers) :
      Cardinality(AcceptedQuestions(fQuestions, next)) >
        Cardinality(AcceptedQuestions(fQuestions, fAnswers))

\* the clarification form is on screen (App.tsx:440-460)
FormShown == pendingClarify # 0 /\ ~isLoading /\ Len(messages) > 0

\* C38: the clarification form is shown, and so its answers are appended, only
\* in the conversation in which the turn that brought the clarify event was
\* started, whatever the user selected while the turn was streaming.
C38_FormInItsConversation ==
  FormShown => currentConversationId = turnConversationId

\* C39: at most one turn is in flight. A turn is started (by handleSendMessage
\* or handleClarifySubmit, which give assistantMsgId a new value) only when no
\* request is running and isLoading is false, and it sets isLoading; when a
\* turn has ended, however it ended, isLoading is false again.
C39_OneTurnInFlight ==
  [][/\ (assistantMsgId' # assistantMsgId) => (~isLoading /\ inflight = "none" /\ isLoading')
     /\ (inflight' = "none") => ~isLoading'
     /\ (inflight' # "none") => isLoading']_vars

\* the first turn ended with a clarify event and the turn started by the
\* submitted answers is running
C39_Witness ==
  /\ isLoading /\ inflight = "open" /\ pendingClarify = 0 /\ clarifies = 1
  /\ Len(messages) = 4 /\ messages[3].content = "answers" /\ assistantMsgId = messages[4].id
====
